---- MODULE Spec2Model ----
(***************************************************************************)
(* Event-bus runtime of ai-re: the two Redis-Streams adapters, their       *)
(* per-subscription worker threads and the subscription manager's handler  *)
(* wrapper, over a model of one Redis stream per topic with one consumer   *)
(* group.                                                                  *)
(*                                                                         *)
(*   busKind = "libs": RedisStreamEventBus (the bus create_event_bus       *)
(*                     builds) with MessageProcessingThread workers; the   *)
(*                     handlers are EventSubscriptionManager wrappers      *)
(*                     (sync or async business handler) or raw callables.  *)
(*   busKind = "ebf" : RedisStreamsEventBus with MessageHandlerLoopThread  *)
(*                     workers and raw handler functions.                  *)
(***************************************************************************)
EXTENDS Naturals, Sequences, FiniteSets, TLC

\* ------------------------------------------------------------------ bounds
MaxMsgs == 2        \* entries ever appended to one stream
MaxThreads == 2     \* worker threads ever created (subscribe calls)

\* ------------------------------------------------------- program constants
DEFAULT_COUNT == 10        \* XREADGROUP count of MessageHandlerLoopThread
DEFAULT_BATCH_SIZE == 10   \* XREADGROUP count of RedisStreamConsumerGroup

Topics == {"t1"}
ThreadIds == 1..MaxThreads
NoThread == 0

VARIABLES
    busKind,     \* which adapter this process uses
    handlerOf,   \* topic -> kind of the handler the service subscribes with
    stream,      \* broker: topic -> sequence of entries (id = index)
    group,       \* broker: topic -> the consumer group on that stream
    thr,         \* worker threads: id -> record
    registry,    \* bus: subscription key (topic) -> registered thread id
    mainPc,      \* main thread: position inside RedisStreamsEventBus.subscribe
    syncLock,    \* manager: holder of _sync_lock
    asyncLock,   \* manager: holder of _async_lock
    calls,       \* history: per thread, its handler invocations in start order
    xacks        \* history: number of XACK commands sent, per sender and id

\* the state of the buses, their workers and the broker
workerVars == <<busKind, handlerOf, stream, group, thr, registry, mainPc, syncLock,
                asyncLock, calls, xacks>>

VARIABLES
    tkArgs,      \* build_topic_key: the arguments <<topic_prefix, topic>>
    tkResult     \* build_topic_key: whether it was called, and its return value

keyVars == <<tkArgs, tkResult>>

VARIABLES
    hreg,        \* MessageHandlerRegistry: its _handlers and _default_handler
    regLog,      \* history: the registrations made, oldest first
    hLookup      \* the last get_handler call and what it returned or raised

regVars == <<hreg, regLog, hLookup>>

VARIABLES
    smPc,        \* BaseServiceManager: position inside start_async
    smRunning,   \* BaseServiceManager.running
    smConfig,    \* BaseServiceManager.config is set
    smBus,       \* BaseServiceManager.event_bus is set
    smSubsDone,  \* history: setup_event_subscriptions has returned
    smSteps,     \* history: the start steps the current start_async call began
    smFailed,    \* history: the step of the current start_async call that raised
    smRaised,    \* the error the last start_async call raised to its caller
    cfgTopics,   \* config: the list topics.subscribe
    cfgDebug,    \* config: the resolved debug_mode
    emTopics,    \* EventSubscriptionManager.topic_handlers, in insertion order
    emTodo,      \* setup_subscriptions: the topics its loop has yet to subscribe
    busLog,      \* history: XGROUP DESTROY and bus.subscribe calls of this wiring
    svcGroups,   \* broker: the consumer groups, as pairs <<stream key, group>>
    svcWorkers   \* bus: the topics whose worker thread was started and not told to stop

smVars == <<smPc, smRunning, smConfig, smBus, smSubsDone, smSteps, smFailed, smRaised,
            cfgTopics, cfgDebug, emTopics, emTodo, busLog, svcGroups, svcWorkers>>

VARIABLES
    subError     \* the error a rejected subscribe call raised to its caller

VARIABLES
    wire,        \* broker: the entries XADD appended, as <<stream key, fields>>
    pubOut,      \* the last publish call: arguments, return value, error
    ackPel,      \* broker: the pending ids of the group acknowledge works on
    ackOut,      \* the last acknowledge call: arguments, return value, error
    wrap         \* manager: per topic, the message_wrapper call of its worker

\* the state the single calls publish and acknowledge work on, and the
\* wrappers of a manager with several topics
callVars == <<wire, pubOut, ackPel, ackOut, wrap>>

VARIABLES
    fnArgs,      \* the arguments of a call of one of the library's functions
    fnResult     \* whether the call was made, what it returned or raised

fnVars == <<fnArgs, fnResult>>

\* the state of everything but the buses and their workers
otherVars == <<keyVars, regVars, smVars, subError, callVars, fnVars>>

\* what the steps of each component leave alone
notKeyVars == <<workerVars, regVars, smVars, subError, callVars, fnVars>>
notRegVars == <<workerVars, keyVars, smVars, subError, callVars, fnVars>>
notSmVars == <<workerVars, keyVars, subError, callVars, fnVars>>
notCallVars == <<workerVars, keyVars, regVars, smVars, subError, fnVars>>
notFnVars == <<workerVars, keyVars, regVars, smVars, subError, callVars>>

vars == <<workerVars, otherVars>>

\* ------------------------------------------------------------------ helpers
Min(a, b) == IF a < b THEN a ELSE b

RECURSIVE Range(_, _)
\* the sequence <<lo, lo+1, ..., hi>>
Range(lo, hi) == IF lo > hi THEN <<>> ELSE <<lo>> \o Range(lo + 1, hi)

NoThreadRec ==
    [pc |-> "none", running |-> FALSE, topic |-> "t1", hk |-> "raw",
     autoAck |-> FALSE, startId |-> ">", batch |-> <<>>, cur |-> 0,
     stopCalled |-> FALSE, stale |-> FALSE]

\* a handler given to subscribe: the manager's message_wrapper around a sync
\* or an async business handler, or a callable used without the manager
HandlerKinds == {"sync", "async", "raw"}

Senders == {"manager", "worker"}
AckKeys == Senders \X Topics \X (1..MaxMsgs)

NoGroup == [exists |-> FALSE, last |-> 0, pel |-> {}]

Idle == [pc |-> "idle", topic |-> "t1", autoAck |-> FALSE, startId |-> ">"]

InitWorkers ==
    /\ busKind \in {"libs", "ebf"}
    /\ handlerOf \in [Topics -> IF busKind = "libs" THEN HandlerKinds
                                ELSE {"raw"}]
    /\ stream = [t \in Topics |-> <<>>]
    /\ group = [t \in Topics |-> NoGroup]
    /\ thr = [th \in ThreadIds |-> NoThreadRec]
    /\ registry = [t \in Topics |-> NoThread]
    /\ mainPc = Idle
    /\ syncLock = NoThread
    /\ asyncLock = NoThread
    /\ calls = [th \in ThreadIds |-> <<>>]
    /\ xacks = [k \in AckKeys |-> 0]

\* strings are sequences of characters; ':' is the separator of stream keys
Chars == {":", "a"}

NoKey == [done |-> FALSE, key |-> <<>>]

InitKey ==
    /\ tkArgs = <<<<>>, <<>>>>
    /\ tkResult = NoKey

\* the topics a service can list or register handlers for
SvcTopics == {<<"a">>, <<"b">>}

Handlers == {"h1", "h2"}
None == "None"

\* MessageHandlerRegistry.__init__ (a topic mapped to None has no entry)
EmptyRegistry == [handlers |-> [t \in SvcTopics |-> None], default |-> None]

NoLookup == [called |-> FALSE, topic |-> <<>>, result |-> None]

InitRegistry ==
    /\ hreg = EmptyRegistry
    /\ regLog = <<>>
    /\ hLookup = NoLookup

\* RedisStreamEventBus.topic_prefix of the service's bus
TopicPrefix == <<"p">>

\* RedisStreamEventBus._build_topic_key
LibsBuildTopicKey(prefix, topic) ==
    IF prefix # <<>> THEN prefix \o <<":">> \o topic ELSE topic

\* the consumer group get_subscription_config resolves, and a group of
\* another service on the same broker
OwnGroup == "svc-group"
OtherGroup == "other-group"

\* the groups of other services: one on every stream
ForeignGroups == {<<LibsBuildTopicKey(TopicPrefix, t), OtherGroup>> : t \in SvcTopics}

\* the groups this service may have left on the broker
OwnGroups == {<<LibsBuildTopicKey(TopicPrefix, t), OwnGroup>> : t \in SvcTopics}

\* BaseServiceManager.__init__
InitServiceManager ==
    /\ smPc = "idle"
    /\ smRunning = FALSE
    /\ smConfig = FALSE
    /\ smBus = FALSE
    /\ smSubsDone = FALSE
    /\ smSteps = <<>>
    /\ smFailed = "none"
    /\ smRaised = None
    /\ emTopics = <<>>
    /\ emTodo = <<>>
    /\ busLog = <<>>

\* a service manager that is never started, with an empty configuration
InitService ==
    /\ InitServiceManager
    /\ cfgTopics = <<>>
    /\ cfgDebug = FALSE
    /\ svcGroups = ForeignGroups
    /\ svcWorkers = {}

\* a call that returned no message id
NoId == <<>>

\* no publish or acknowledge call made yet
NoPublish == [called |-> FALSE, topic |-> <<>>, payload |-> None, id |-> NoId,
              raised |-> None, attempts |-> 0]
NoAcknowledge == [called |-> FALSE, key |-> <<>>, ids |-> <<>>,
                  result |-> [type |-> "none", val |-> 0], raised |-> None,
                  xacks |-> 0, topic |-> <<>>, failed |-> FALSE, confirmed |-> 0]

\* a topic of the manager whose worker has called no wrapper yet
NoWrapper == [hk |-> "sync", pc |-> "idle", seen |-> 0]

\* no library function called yet
NoCall == [done |-> FALSE]

InitFn ==
    /\ fnArgs = <<>>
    /\ fnResult = NoCall

InitCalls ==
    /\ wire = <<>>
    /\ pubOut = NoPublish
    /\ ackPel = {}
    /\ ackOut = NoAcknowledge
    /\ wrap = [t \in SvcTopics |-> NoWrapper]

Init ==
    /\ InitWorkers
    /\ InitKey
    /\ InitRegistry
    /\ InitService
    /\ subError = None
    /\ InitFn
    /\ InitCalls

\* ------------------------------------------------------------------ broker
\* XADD <key> * ...: the broker appends one entry and assigns the next id.
XAdd(t, kind) == stream' = [stream EXCEPT ![t] = Append(@, kind)]

\* XGROUP CREATE <key> <group> <id> MKSTREAM; BUSYGROUP leaves the group as is.
XGroupCreate(g, t, fromBeginning) ==
    IF g[t].exists THEN g
    ELSE [g EXCEPT ![t] = [exists |-> TRUE,
                           last |-> IF fromBeginning THEN 0 ELSE Len(stream[t]),
                           pel |-> {}]]

\* XREADGROUP ... COUNT count STREAMS <key> > : the ids never delivered to the
\* group, oldest first, at most count of them.
XReadGroupReply(t, count) ==
    Range(group[t].last + 1, Min(Len(stream[t]), group[t].last + count))

RECURSIVE Ascending(_)
\* the ids of a set, smallest first
Ascending(ids) ==
    IF ids = {} THEN <<>>
    ELSE LET m == CHOOSE a \in ids : \A b \in ids : a <= b
         IN <<m>> \o Ascending(ids \ {m})

\* XREADGROUP ... COUNT count STREAMS <key> 0 : the consumer's pending entries
\* (delivered, not acknowledged), oldest first, at most count of them; the
\* command does not block and delivers nothing new
XReadGroupHistory(t, count) ==
    LET pending == Ascending(group[t].pel)
    IN SubSeq(pending, 1, Min(Len(pending), count))

\* the group after that reply: the cursor advances, the ids become pending
XReadGroupDeliver(t, reply) ==
    [group EXCEPT ![t].last = @ + Len(reply),
                  ![t].pel = @ \cup {reply[i] : i \in 1..Len(reply)}]

\* XACK <key> <group> <id>: the id leaves the pending list
XAckApply(g, t, id) == [g EXCEPT ![t].pel = @ \ {id}]

\* ----------------------------------------------------------- thread records
FreeThreads == {th \in ThreadIds : thr[th].pc = "none"}

\* the next Thread object to be constructed
NewThread == CHOOSE th \in FreeThreads : \A o \in FreeThreads : th <= o

\* MessageProcessingThread.__init__ / MessageHandlerLoopThread.__init__ followed
\* by Thread.start(): the flag is False until run() begins
NewWorker(t, hk, autoAck) ==
    [NoThreadRec EXCEPT !.pc = "started", !.topic = t, !.hk = hk,
                        !.autoAck = autoAck]

\* a stop() that would leave the flag as it is
StopWorker_NoFlag(rec) == rec

\* MessageProcessingThread.stop / MessageHandlerLoopThread.stop
StopWorker(rec) == [rec EXCEPT !.running = FALSE, !.stopCalled = TRUE]

\* a worker replaced by a later subscribe of the same subscription key
Superseded(rec) == [rec EXCEPT !.stale = TRUE]

\* ------------------------------------------------- producers (main thread)
\* RedisStreamEventBus.publish / RedisStreamsEventBus.publish: one XADD of a
\* JSON-serialized payload
Publish(t) ==
    /\ Len(stream[t]) < MaxMsgs
    /\ XAdd(t, "json")
    /\ UNCHANGED <<busKind, handlerOf, group, thr, registry, mainPc, syncLock, asyncLock,
                   calls, xacks>>
    /\ UNCHANGED otherVars

\* another producer on the same broker appends an entry whose payload field
\* is not valid JSON
ForeignXAdd(t) ==
    /\ Len(stream[t]) < MaxMsgs
    /\ XAdd(t, "malformed")
    /\ UNCHANGED <<busKind, handlerOf, group, thr, registry, mainPc, syncLock, asyncLock,
                   calls, xacks>>
    /\ UNCHANGED otherVars

\* ------------------------------------------- RedisStreamEventBus (libs bus)
\* subscribe: create_group (id 0-0, BUSYGROUP ignored), store the handler,
\* then _start_message_processing_thread: stop() the registered thread of the
\* same key, construct the new thread, register it, start it.
SubscribeLibs(t) ==
    /\ busKind = "libs"
    /\ FreeThreads # {}
    /\ group' = XGroupCreate(group, t, TRUE)
    /\ LET old == registry[t]
           new == NewThread
       IN /\ thr' = [th \in ThreadIds |->
                       IF th = new THEN NewWorker(t, handlerOf[t], FALSE)
                       ELSE IF th = old THEN Superseded(StopWorker(thr[th]))
                       ELSE thr[th]]
          /\ registry' = [registry EXCEPT ![t] = new]
    /\ UNCHANGED <<busKind, handlerOf, stream, mainPc, syncLock, asyncLock, calls, xacks>>
    /\ UNCHANGED otherVars

\* stop_all_subscriptions: stop() every registered thread, clear the maps
StopAllSubscriptions ==
    /\ busKind = "libs"
    /\ \E t \in Topics : registry[t] # NoThread
    /\ thr' = [th \in ThreadIds |->
                 IF \E t \in Topics : registry[t] = th
                 THEN StopWorker(thr[th]) ELSE thr[th]]
    /\ registry' = [t \in Topics |-> NoThread]
    /\ UNCHANGED <<busKind, handlerOf, stream, group, mainPc, syncLock, asyncLock, calls,
                   xacks>>
    /\ UNCHANGED otherVars

\* ------------------------------------------- RedisStreamsEventBus (ebf bus)
\* the values of start_from_id: '>' (the default) and '0'
StartIds == {">", "0"}

\* MessageHandlerLoopThread.__init__ with start_id, then Thread.start()
NewLoopThread(t, autoAck, startId) ==
    [NewWorker(t, "raw", autoAck) EXCEPT !.startId = startId]

\* subscribe, first half: XGROUP CREATE (id start_from_id, or $ for '>';
\* BUSYGROUP ignored); if the key is already subscribed, stop() the old thread
\* and sleep 0.1 s, else construct, register and start the thread at once.
SubscribeEbf(t, autoAck, startId) ==
    /\ busKind = "ebf"
    /\ mainPc.pc = "idle"
    /\ FreeThreads # {}
    /\ group' = XGroupCreate(group, t, startId # ">")
    /\ IF registry[t] # NoThread
       THEN /\ thr' = [thr EXCEPT ![registry[t]] = StopWorker(@)]
            /\ mainPc' = [pc |-> "quiesce", topic |-> t, autoAck |-> autoAck,
                          startId |-> startId]
            /\ UNCHANGED registry
       ELSE /\ thr' = [thr EXCEPT ![NewThread] = NewLoopThread(t, autoAck, startId)]
            /\ registry' = [registry EXCEPT ![t] = NewThread]
            /\ UNCHANGED mainPc
    /\ UNCHANGED <<busKind, handlerOf, stream, syncLock, asyncLock, calls, xacks>>
    /\ UNCHANGED otherVars

\* subscribe with the default start_from_id
SubscribeEbfBegin(t, autoAck) == SubscribeEbf(t, autoAck, ">")

\* subscribe, second half, after the sleep: construct the new thread, overwrite
\* the registry entry, start the thread, return
SubscribeEbfFinish ==
    /\ busKind = "ebf"
    /\ mainPc.pc = "quiesce"
    /\ LET t == mainPc.topic
           old == registry[t]
           new == NewThread
       IN /\ thr' = [th \in ThreadIds |->
                       IF th = new
                       THEN NewLoopThread(t, mainPc.autoAck, mainPc.startId)
                       ELSE IF th = old THEN Superseded(thr[th])
                       ELSE thr[th]]
          /\ registry' = [registry EXCEPT ![t] = new]
    /\ mainPc' = Idle
    /\ UNCHANGED <<busKind, handlerOf, stream, group, syncLock, asyncLock, calls, xacks>>
    /\ UNCHANGED otherVars

\* the owner of a MessageHandlerLoopThread calls its stop()
StopThread(th) ==
    /\ busKind = "ebf"
    /\ thr[th].pc # "none"
    /\ ~thr[th].stopCalled
    /\ thr' = [thr EXCEPT ![th] = StopWorker(@)]
    /\ UNCHANGED <<busKind, handlerOf, stream, group, registry, mainPc, syncLock,
                   asyncLock, calls, xacks>>
    /\ UNCHANGED otherVars

\* ------------------------------------------------ worker threads: the loop
\* run() begins: `self._running = True` / `self.running = True`
RunBegin(th) ==
    /\ thr[th].pc = "started"
    /\ thr' = [thr EXCEPT ![th].running = TRUE, ![th].pc = "loop"]
    /\ UNCHANGED <<busKind, handlerOf, stream, group, registry, mainPc,
                   syncLock, asyncLock, calls, xacks>>
    /\ UNCHANGED otherVars

\* the position after evaluating `while self._running:` / `while self.running:`
LoopTest(running) == IF running THEN "read" ELSE "stopped"

\* the loop condition is evaluated on entry and after a sleep
LoopCheck(th) ==
    /\ thr[th].pc = "loop"
    /\ thr' = [thr EXCEPT ![th].pc = LoopTest(thr[th].running)]
    /\ UNCHANGED <<busKind, handlerOf, stream, group, registry, mainPc,
                   syncLock, asyncLock, calls, xacks>>
    /\ UNCHANGED otherVars

\* the end of a loop iteration: the rest of the reply is dropped, the loop
\* condition is evaluated again
EndIteration(rec) == [rec EXCEPT !.batch = <<>>, !.pc = LoopTest(rec.running)]

\* a business-handler invocation starts
CallRec(id, stale) ==
    [id |-> id, result |-> "pending", raised |-> FALSE, stale |-> stale]

StartCall(rec, cs, id, rest) ==
    [t |-> [rec EXCEPT !.cur = id, !.batch = rest, !.pc = "handler"],
     c |-> Append(cs, CallRec(id, rec.stale))]

\* a worker that would take the messages of a reply newest first
LibsNextMessage_NewestFirst(rec, cs) ==
    IF rec.batch = <<>> \/ ~rec.running
    THEN [t |-> EndIteration(rec), c |-> cs]
    ELSE StartCall(rec, cs, rec.batch[Len(rec.batch)],
                   SubSeq(rec.batch, 1, Len(rec.batch) - 1))

\* MessageProcessingThread.run, `for message in messages:` from the top of one
\* iteration to the handler call: the list is exhausted, or
\* `if not self._running: break`, or the handler is called with the next
\* message (a malformed data field was replaced by {} in read_messages; the
\* handler is called all the same).  rec is the thread, cs its calls so far.
LibsNextMessage(rec, cs) ==
    IF rec.batch = <<>> \/ ~rec.running
    THEN [t |-> EndIteration(rec), c |-> cs]
    ELSE StartCall(rec, cs, Head(rec.batch), Tail(rec.batch))

\* decode_redis_stream_message: the entry of a reply that _process_messages
\* goes on to handle (stream_messages[0])
DecodedEntry(reply) == Head(reply)

\* MessageHandlerLoopThread._process_messages up to the handler call:
\* deserialize_from_json raises on a malformed payload (caught and logged, the
\* iteration ends), else the handler function is called
EbfProcessMessages(rec, cs) ==
    LET id == DecodedEntry(rec.batch)
    IN IF stream[rec.topic][id] = "malformed"
       THEN [t |-> EndIteration(rec), c |-> cs]
       ELSE StartCall(rec, cs, id, <<>>)

\* what the worker does with a reply
Dispatch(rec, cs) ==
    IF busKind = "libs" THEN LibsNextMessage(rec, cs)
    ELSE EbfProcessMessages(rec, cs)

\* the XREADGROUP count of the worker of each bus
ReadCount(kind) == IF kind = "libs" THEN DEFAULT_BATCH_SIZE ELSE DEFAULT_COUNT

\* an iteration that handled no message ends in a sleep (libs 0.1 s, ebf 0.01 s,
\* 1 s after an error); the loop condition is evaluated when the thread wakes
Sleep(rec) == [rec EXCEPT !.batch = <<>>, !.pc = "loop"]

\* the id argument of the worker's XREADGROUP: REDIS_STREAM_NEXT_ID in
\* read_messages, `streams_dict = {self.full_topic_key: self.start_id}` in
\* MessageHandlerLoopThread.run
ReadCursor(kind, rec) == IF kind = "libs" THEN ">" ELSE rec.startId

\* the XREADGROUP returns: no entry (block time expired, or a history without
\* entries) or a reply, which the worker starts to dispatch; the entries of
\* a reply to '>' become pending.  A history read is taken only while the
\* thread's call history has room.
ReadMessages(th) ==
    /\ thr[th].pc = "read"
    /\ LET t == thr[th].topic
           new == ReadCursor(busKind, thr[th]) = ">"
           reply == IF new THEN XReadGroupReply(t, ReadCount(busKind))
                    ELSE XReadGroupHistory(t, ReadCount(busKind))
           d == Dispatch([thr[th] EXCEPT !.batch = reply], calls[th])
       IN /\ new \/ Len(calls[th]) < MaxMsgs
          /\ IF reply = <<>>
             THEN /\ thr' = [thr EXCEPT ![th] = Sleep(@)]
                  /\ UNCHANGED <<group, calls>>
             ELSE /\ group' = IF new THEN XReadGroupDeliver(t, reply) ELSE group
                  /\ thr' = [thr EXCEPT ![th] = d.t]
                  /\ calls' = [calls EXCEPT ![th] = d.c]
    /\ UNCHANGED <<busKind, handlerOf, stream, registry, mainPc, syncLock,
                   asyncLock, xacks>>
    /\ UNCHANGED otherVars

\* the XREADGROUP fails (transport error): libs read_messages catches it and
\* returns [], ebf run catches redis.RedisError and sleeps 1 s
ReadError(th) ==
    /\ thr[th].pc = "read"
    /\ thr' = [thr EXCEPT ![th] = Sleep(@)]
    /\ UNCHANGED <<busKind, handlerOf, stream, group, registry, mainPc,
                   syncLock, asyncLock, calls, xacks>>
    /\ UNCHANGED otherVars

\* ------------------------------------- the handler call and what follows it
Results == {"true", "false", "raise"}

\* does the callable the worker called raise?  message_wrapper catches every
\* exception of the business handler; a raw handler's exception reaches the
\* worker
HandlerCallRaises(hk, r) == hk = "raw" /\ r = "raise"

\* a manager that would acknowledge whatever the business handler did
ManagerAcks_Always(hk, r) == hk \in {"sync", "async"}

\* _handle_sync_message / process_async: `if success:` acknowledge
ManagerAcks(hk, r) == hk \in {"sync", "async"} /\ r = "true"

\* a worker whose run() would not catch the exception of a handler
LibsAfterCall_Uncaught(hk, r) ==
    IF HandlerCallRaises(hk, r) THEN "stopped"
    ELSE IF ManagerAcks(hk, r) THEN "mlock"
    ELSE "wack"

\* a worker that would acknowledge a message whose handler call raised
LibsAfterCall_AckOnRaise(hk, r) ==
    IF ManagerAcks(hk, r) THEN "mlock" ELSE "wack"

\* MessageProcessingThread.run after the handler call: the inner except goes
\* on with the next message ("next"); otherwise event_bus.acknowledge is
\* called ("wack"), after the manager's own acknowledge when the wrapper makes
\* one ("mlock")
LibsAfterCall(hk, r) ==
    IF HandlerCallRaises(hk, r) THEN "next"
    ELSE IF ManagerAcks(hk, r) THEN "mlock"
    ELSE "wack"

\* a worker that would acknowledge whatever its handler did and whatever
\* auto_acknowledge says
EbfAfterCall_AckAlways(autoAck, r) == "wack"

\* MessageHandlerLoopThread._process_messages after the handler call: an
\* exception is caught and logged; `if self.auto_acknowledge:` xack
EbfAfterCall(autoAck, r) ==
    IF r = "raise" THEN "next"
    ELSE IF autoAck THEN "wack"
    ELSE "next"

AfterCall(rec, r) ==
    IF busKind = "libs" THEN LibsAfterCall(rec.hk, r)
    ELSE EbfAfterCall(rec.autoAck, r)

\* the worker goes on after a message: libs takes the next message of the
\* reply, ebf ends the iteration
GoOn(rec, cs) ==
    IF busKind = "libs" THEN LibsNextMessage(rec, cs)
    ELSE [t |-> EndIteration(rec), c |-> cs]

\* the business handler (or raw handler) returns r or raises
HandlerReturn(th, r) ==
    /\ thr[th].pc = "handler"
    /\ LET rec == thr[th]
           raised == IF busKind = "libs" THEN HandlerCallRaises(rec.hk, r)
                     ELSE r = "raise"
           cs == [calls[th] EXCEPT ![Len(calls[th])] =
                    [@ EXCEPT !.result = r, !.raised = raised]]
           to == AfterCall(rec, r)
           d == GoOn(rec, cs)
       IN IF to = "next"
          THEN /\ thr' = [thr EXCEPT ![th] = d.t]
               /\ calls' = [calls EXCEPT ![th] = d.c]
          ELSE /\ thr' = [thr EXCEPT ![th].pc = to]
               /\ calls' = [calls EXCEPT ![th] = cs]
    /\ UNCHANGED <<busKind, handlerOf, stream, group, registry, mainPc,
                   syncLock, asyncLock, xacks>>
    /\ UNCHANGED otherVars

\* one XACK command for the message the thread is handling: it is counted,
\* and unless the transport fails (ok = FALSE) the broker applies it
SendXAck(by, th, ok) ==
    /\ xacks' = [xacks EXCEPT ![<<by, thr[th].topic, thr[th].cur>>] = @ + 1]
    /\ group' = IF ok THEN XAckApply(group, thr[th].topic, thr[th].cur)
                ELSE group

\* `with self._sync_lock:` (threading.Lock) / `async with self._async_lock:`
\* when the asyncio.Lock is free
ManagerLock(th) ==
    /\ thr[th].pc = "mlock"
    /\ \/ /\ thr[th].hk = "sync"
          /\ syncLock = NoThread
          /\ syncLock' = th
          /\ UNCHANGED asyncLock
       \/ /\ thr[th].hk = "async"
          /\ asyncLock = NoThread
          /\ asyncLock' = th
          /\ UNCHANGED syncLock
    /\ thr' = [thr EXCEPT ![th].pc = "mack"]
    /\ UNCHANGED <<busKind, handlerOf, stream, group, registry, mainPc, calls,
                   xacks>>
    /\ UNCHANGED otherVars

\* `async with self._async_lock:` while a coroutine of another worker thread
\* (another asyncio.run loop) holds the asyncio.Lock.  asyncio.Lock is neither
\* thread-safe nor usable across event loops: the acquire raises RuntimeError
\* (caught by process_async, nothing is acknowledged) or waits on a future
\* whose wake-up from the other thread never reaches this loop.
AsyncLockOutcomes == {"error", "hang"}

AsyncLockContended(th, o) ==
    /\ thr[th].pc = "mlock"
    /\ thr[th].hk = "async"
    /\ asyncLock # NoThread
    /\ thr' = [thr EXCEPT ![th].pc = IF o = "error" THEN "wack" ELSE "hung"]
    /\ UNCHANGED <<busKind, handlerOf, stream, group, registry, mainPc,
                   syncLock, asyncLock, calls, xacks>>
    /\ UNCHANGED otherVars

\* a manager that would release its lock only after a successful acknowledge
LockAfterAck_KeptOnFailure(lock, th, ok) ==
    IF lock = th /\ ok THEN NoThread ELSE lock

\* the end of `with self._sync_lock:` / `async with self._async_lock:`: the
\* holder releases the lock however acknowledge ended
LockAfterAck(lock, th, ok) == IF lock = th THEN NoThread ELSE lock

\* the manager's event_bus.acknowledge(topic, group, [message_id]) inside the
\* lock: RedisStreamEventBus.acknowledge sends one XACK (a transport error is
\* caught there and reported as False); the lock is released and the wrapper
\* returns
ManagerAck(th, ok) ==
    /\ thr[th].pc = "mack"
    /\ SendXAck("manager", th, ok)
    /\ syncLock' = LockAfterAck(syncLock, th, ok)
    /\ asyncLock' = LockAfterAck(asyncLock, th, ok)
    /\ thr' = [thr EXCEPT ![th].pc = "wack"]
    /\ UNCHANGED <<busKind, handlerOf, stream, registry, mainPc, calls>>
    /\ UNCHANGED otherVars

\* the worker's own acknowledgement.  libs: MessageProcessingThread.run calls
\* event_bus.acknowledge after every handler call that did not raise, then
\* takes the next message.  ebf: the auto_acknowledge xack of
\* _process_messages (a RedisError is caught), then the iteration ends.
WorkerAck(th, ok) ==
    /\ thr[th].pc = "wack"
    /\ SendXAck("worker", th, ok)
    /\ LET d == GoOn(thr[th], calls[th])
       IN /\ thr' = [thr EXCEPT ![th] = d.t]
          /\ calls' = [calls EXCEPT ![th] = d.c]
    /\ UNCHANGED <<busKind, handlerOf, stream, registry, mainPc, syncLock,
                   asyncLock>>
    /\ UNCHANGED otherVars

\* ------------------------------------------------------------ specification
\* the steps of one worker thread; oks: the outcomes an XACK can have
\* (TRUE: applied by the broker, FALSE: the transport fails)
WorkerStepWith(th, oks) ==
    \/ RunBegin(th)
    \/ LoopCheck(th)
    \/ ReadMessages(th)
    \/ \E r \in Results : HandlerReturn(th, r)
    \/ ManagerLock(th)
    \/ \E ok \in oks : ManagerAck(th, ok)
    \/ \E ok \in oks : WorkerAck(th, ok)

WorkerStep(th) == WorkerStepWith(th, BOOLEAN)

Next ==
    \/ \E t \in Topics : Publish(t)
    \/ \E t \in Topics : ForeignXAdd(t)
    \/ \E t \in Topics : SubscribeLibs(t)
    \/ StopAllSubscriptions
    \/ \E t \in Topics, a \in BOOLEAN : SubscribeEbfBegin(t, a)
    \/ SubscribeEbfFinish
    \/ \E th \in ThreadIds : StopThread(th)
    \/ \E th \in ThreadIds : WorkerStep(th)
    \/ \E th \in ThreadIds : ReadError(th)
    \/ \E th \in ThreadIds, o \in AsyncLockOutcomes : AsyncLockContended(th, o)

Spec == Init /\ [][Next]_vars

\* the scheduler runs every thread that can take a step; a blocking read
\* returns after its block time; handlers return.  Nothing obliges the
\* environment to publish, subscribe or stop, nor the transport to fail.
Fairness == \A th \in ThreadIds : WF_vars(WorkerStep(th))

FairSpec == Spec /\ Fairness

\* a service wired by BaseServiceManager: the bus built by create_event_bus,
\* every handler wrapped by the EventSubscriptionManager, a broker that
\* carries only the entries this bus published and answers every command
InitManaged ==
    /\ Init
    /\ busKind = "libs"
    /\ \A t \in Topics : handlerOf[t] \in {"sync", "async"}

NextManaged ==
    \/ \E t \in Topics : Publish(t)
    \/ \E t \in Topics : SubscribeLibs(t)
    \/ StopAllSubscriptions
    \/ \E th \in ThreadIds : WorkerStepWith(th, {TRUE})
    \/ \E th \in ThreadIds, o \in AsyncLockOutcomes : AsyncLockContended(th, o)

SpecManaged == InitManaged /\ [][NextManaged]_vars

\* ---------------------------------------------------- notions of the claims
Wrapped(th) == thr[th].hk \in {"sync", "async"}

CallsOf(th) == DOMAIN calls[th]

\* XACK commands sent for an id, by sender and in total
AcksBy(by, t, id) == xacks[<<by, t, id>>]
AcksFor(t, id) == AcksBy("manager", t, id) + AcksBy("worker", t, id)

\* the wrapper call for the i-th invocation of th has returned to the worker
WrapperReturned(th, i) ==
    /\ calls[th][i].result # "pending"
    /\ i = Len(calls[th]) => thr[th].pc \notin {"mlock", "mack", "hung"}

\* the worker has finished with its i-th invocation
WorkerDone(th, i) ==
    /\ WrapperReturned(th, i)
    /\ i = Len(calls[th]) => thr[th].pc # "wack"

Failed(r) == r \in {"false", "raise"}

\* number of handler invocations for an id of a topic, over all workers
Invocations(t, id) ==
    Cardinality({<<th, i>> \in ThreadIds \X (1..MaxMsgs) :
                    /\ thr[th].topic = t
                    /\ i \in CallsOf(th)
                    /\ calls[th][i].id = id})

\* an id that was delivered, whose handler failed, and that no XACK removed
\* from the pending list
FailedUnacked(t, id) ==
    /\ id \in group[t].pel
    /\ \E th \in ThreadIds : \E i \in CallsOf(th) :
          /\ thr[th].topic = t
          /\ calls[th][i].id = id
          /\ Failed(calls[th][i].result)

\* the service keeps running: the subscription of the topic has a registered
\* worker nobody stopped, in its loop
Serving(t) ==
    /\ registry[t] # NoThread
    /\ ~thr[registry[t]].stopCalled
    /\ thr[registry[t]].pc \notin {"stopped", "hung"}

\* ------------------------------------------------------------------ claims
\* C1: at-least-once redelivery.  A delivered message whose handler returned
\* falsy or raised, and that was not acknowledged, is delivered to a handler
\* of the same group again, as long as the service keeps running.
C1_Redelivery ==
    \A t \in Topics : \A id \in 1..MaxMsgs :
        [](FailedUnacked(t, id) => <>(Invocations(t, id) >= 2 \/ ~Serving(t)))

\* C2: no acknowledgement on failure, the manager alone.  When the business
\* handler returns a falsy value or raises, on the sync and on the async path,
\* the manager makes no event_bus.acknowledge call for that message, and the
\* wrapper does not raise into the worker.
C2_NoManagerAckOnFailure ==
    \A th \in ThreadIds : \A i \in CallsOf(th) :
        (Wrapped(th) /\ Failed(calls[th][i].result)) =>
            /\ AcksBy("manager", thr[th].topic, calls[th][i].id) = 0
            /\ ~calls[th][i].raised
            /\ i = Len(calls[th]) => thr[th].pc \notin {"mlock", "mack"}

\* C2 witness: a wrapped business handler has raised for one message and
\* returned falsy for another, and the wrapper has returned both times
C2_Witness ==
    \E th \in ThreadIds :
        /\ Wrapped(th)
        /\ \E i \in CallsOf(th) : calls[th][i].result = "raise" /\ WrapperReturned(th, i)
        /\ \E j \in CallsOf(th) : calls[th][j].result = "false" /\ WrapperReturned(th, j)

\* C3: exactly one acknowledgement per success, the manager alone.  For every
\* business-handler invocation that returns a truthy value the manager has
\* made exactly one event_bus.acknowledge call for that topic and message id
\* by the time the wrapper returns, and never more than one.
C3_OneManagerAckOnSuccess ==
    \A th \in ThreadIds : \A i \in CallsOf(th) :
        (Wrapped(th) /\ calls[th][i].result = "true") =>
            /\ AcksBy("manager", thr[th].topic, calls[th][i].id) <= 1
            /\ WrapperReturned(th, i) =>
                  AcksBy("manager", thr[th].topic, calls[th][i].id) = 1

\* C4: no acknowledgement on failure, end to end.  In the managed service no
\* XACK is sent for a message whose business handler returned falsy or raised,
\* neither by the wrapper nor by the worker thread, and the id stays pending.
C4_NoXAckOnFailure ==
    \A th \in ThreadIds : \A i \in CallsOf(th) :
        (Wrapped(th) /\ Failed(calls[th][i].result)) =>
            /\ AcksFor(thr[th].topic, calls[th][i].id) = 0
            /\ calls[th][i].id \in group[thr[th].topic].pel

\* C5: exactly one acknowledgement per success, end to end.  In the managed
\* service a message whose business handler returns truthy has one handler
\* invocation and, manager and worker counted together, exactly one XACK.
C5_OneXAckOnSuccess ==
    \A th \in ThreadIds : \A i \in CallsOf(th) :
        (Wrapped(th) /\ calls[th][i].result = "true") =>
            /\ Invocations(thr[th].topic, calls[th][i].id) = 1
            /\ AcksFor(thr[th].topic, calls[th][i].id) <= 1
            /\ WorkerDone(th, i) => AcksFor(thr[th].topic, calls[th][i].id) = 1

\* a worker is reading from the broker or inside a handler invocation
Active(th) == thr[th].pc \in {"read", "handler", "mlock", "mack", "wack"}

\* the workers some subscribe call started for the triple of topic t and did
\* not hand over to stop_all_subscriptions: the registered one and those a
\* later subscribe call, which has returned, replaced
WorkersOfTriple(t) ==
    {th \in ThreadIds : thr[th].topic = t /\ (registry[t] = th \/ thr[th].stale)}

\* no worker is between a read and the end of its iteration
Quiescent == \A th \in ThreadIds : thr[th].pc \notin {"handler", "wack"}

\* C6: every entry of a read is dispatched.  In the worker of
\* RedisStreamsEventBus every well-formed entry that an XREADGROUP reply
\* delivered has its handler invocation once the worker has finished with
\* the reply: a reply of k entries leads to k invocations.
C6_EveryEntryDispatched ==
    (busKind = "ebf" /\ Quiescent) =>
        \A t \in Topics : \A id \in group[t].pel :
            stream[t][id] = "json" => Invocations(t, id) = 1

\* C7: order within a consumer.  The business-handler invocations of one
\* subscription worker start in increasing order of message id, for sync
\* handlers and for async handlers run through _handle_async_message.
C7_OrderWithinWorker ==
    \A th \in ThreadIds : \A i, j \in CallsOf(th) :
        i < j => calls[th][i].id < calls[th][j].id

\* C7 witness: one worker has started the handler for two messages, for an
\* async business handler
C7_Witness ==
    \E th \in ThreadIds :
        /\ thr[th].hk = "async"
        /\ Len(calls[th]) >= 2
        /\ calls[th][1].id < calls[th][2].id

\* C8: resubscribe yields one active worker.  Once the second subscribe call
\* for a triple has returned, at most one worker of that triple is reading or
\* invoking a handler, and the replaced worker starts no handler invocation.
C8_OneActiveWorker ==
    /\ \A t \in Topics :
          Cardinality({th \in WorkersOfTriple(t) : Active(th)}) <= 1
    /\ \A th \in ThreadIds : \A i \in CallsOf(th) : ~calls[th][i].stale

\* C9: stop liveness.  Once stop() has been called on a started
\* MessageHandlerLoopThread the loop eventually exits, whatever the
\* interleaving of start(), run() and stop().
C9_StopLiveness ==
    \A th \in ThreadIds :
        [](busKind = "ebf" /\ thr[th].stopCalled => <>(thr[th].pc = "stopped"))

\* C10: only the stop flag ends a worker.  No step takes a worker loop to
\* its exit while the worker's flag is set: read errors, decode errors and
\* handler exceptions leave the worker in its loop.
C10_OnlyStopFlagEnds ==
    [][\A th \in ThreadIds :
          (thr[th].pc # "stopped" /\ thr'[th].pc = "stopped") => ~thr[th].running]_vars

\* C10 witness: a worker whose handler raised is back at its read with its
\* flag set
C10_Witness ==
    \E th \in ThreadIds :
        /\ thr[th].running
        /\ thr[th].pc = "read"
        /\ \E i \in CallsOf(th) : calls[th][i].raised

\* a worker that stop_all_subscriptions (the bus stop of
\* BaseServiceManager.stop_async) has stopped and dropped from the registry
ShutDown(th) ==
    /\ busKind = "libs"
    /\ thr[th].stopCalled
    /\ ~thr[th].stale

\* C11: shutdown joins the workers.  When stop_async and the bus stop it
\* calls have returned, every worker thread of the bus has terminated: it
\* reads nothing and invokes no handler any more.
C11_ShutdownJoinsWorkers ==
    \A th \in ThreadIds : ShutDown(th) => thr[th].pc = "stopped"

\* ------------------------------------------------------- build_topic_key
MaxLen == 3      \* longest prefix and longest topic

\* the strings of at most n characters
Strings(n) == UNION {[1..k -> Chars] : k \in 0..n}

EndsWithColon(str) == str # <<>> /\ str[Len(str)] = ":"

StartsWithColon(str) == str # <<>> /\ str[1] = ":"

\* core.utils.build_topic_key
build_topic_key(topic_prefix, topic) ==
    IF topic_prefix = <<>> THEN topic
    ELSE IF EndsWithColon(topic_prefix) /\ StartsWithColon(topic)
         THEN topic_prefix \o Tail(topic)
    ELSE IF EndsWithColon(topic_prefix) \/ StartsWithColon(topic)
         THEN topic_prefix \o topic
    ELSE topic_prefix \o <<":">> \o topic

\* a caller passes a prefix and a topic
InitTopicKey ==
    /\ InitWorkers
    /\ busKind = "ebf"
    /\ tkArgs \in Strings(MaxLen) \X Strings(MaxLen)
    /\ tkResult = NoKey
    /\ InitRegistry
    /\ InitService
    /\ subError = None
    /\ InitFn
    /\ InitCalls

BuildTopicKey ==
    /\ ~tkResult.done
    /\ tkResult' = [done |-> TRUE, key |-> build_topic_key(tkArgs[1], tkArgs[2])]
    /\ UNCHANGED <<tkArgs, notKeyVars>>

NextTopicKey == BuildTopicKey

SpecTopicKey == InitTopicKey /\ [][NextTopicKey]_vars

RECURSIVE LStrip(_)
\* str without its leading ':' characters
LStrip(str) == IF StartsWithColon(str) THEN LStrip(Tail(str)) ELSE str

RECURSIVE RStrip(_)
\* str without its trailing ':' characters
RStrip(str) ==
    IF EndsWithColon(str) THEN RStrip(SubSeq(str, 1, Len(str) - 1)) ELSE str

\* C19: topic-key canonicalization.  build_topic_key(p, t) is t when p is
\* empty; otherwise it is p and t joined by exactly one ':' at the seam,
\* whether or not p ends with ':' or t begins with one or more ':'.
C19_TopicKeyCanonical ==
    tkResult.done =>
        tkResult.key = IF tkArgs[1] = <<>> THEN tkArgs[2]
                       ELSE RStrip(tkArgs[1]) \o <<":">> \o LStrip(tkArgs[2])

\* ------------------------------------------------- MessageHandlerRegistry
MaxRegs == 3     \* registrations (default handler included) ever made

\* the name under which the history records a set_default_handler call
DefaultEntry == <<"*">>

\* register_handler: self._handlers[topic] = handler
register_handler(r, topic, handler) == [r EXCEPT !.handlers[topic] = handler]

\* register_handlers: register_handler for every item of the dict hs (a topic
\* mapped to None is not in the dict)
register_handlers(r, hs) ==
    [r EXCEPT !.handlers = [t \in SvcTopics |-> IF hs[t] # None THEN hs[t] ELSE @[t]]]

\* the registrations a register_handlers call makes, as history entries
RECURSIVE ItemsOf(_, _)
ItemsOf(hs, ts) ==
    IF ts = {} THEN <<>>
    ELSE LET t == CHOOSE x \in ts : TRUE
         IN (IF hs[t] # None THEN <<[topic |-> t, handler |-> hs[t]]>> ELSE <<>>)
            \o ItemsOf(hs, ts \ {t})

\* a registry whose get_handler would look at the default handler first
get_handler_DefaultFirst(r, topic) ==
    IF r.default # None THEN r.default
    ELSE IF r.handlers[topic] # None THEN r.handlers[topic]
    ELSE "ValueError"

\* get_handler: the topic's own handler, else the default handler if it is
\* truthy, else ValueError is raised
get_handler(r, topic) ==
    IF r.handlers[topic] # None THEN r.handlers[topic]
    ELSE IF r.default # None THEN r.default
    ELSE "ValueError"

\* get_all_handlers: the topics that have a handler of their own
get_all_handlers(r) == {t \in SvcTopics : r.handlers[t] # None}

RegisterHandler(t, h) ==
    /\ Len(regLog) < MaxRegs
    /\ hreg' = register_handler(hreg, t, h)
    /\ regLog' = Append(regLog, [topic |-> t, handler |-> h])
    /\ hLookup' = NoLookup
    /\ UNCHANGED notRegVars

RegisterHandlers(hs) ==
    /\ \E t \in SvcTopics : hs[t] # None
    /\ Len(regLog) + Len(ItemsOf(hs, SvcTopics)) <= MaxRegs
    /\ hreg' = register_handlers(hreg, hs)
    /\ regLog' = regLog \o ItemsOf(hs, SvcTopics)
    /\ hLookup' = NoLookup
    /\ UNCHANGED notRegVars

\* set_default_handler: self._default_handler = handler
SetDefaultHandler(h) ==
    /\ Len(regLog) < MaxRegs
    /\ hreg' = [hreg EXCEPT !.default = h]
    /\ regLog' = Append(regLog, [topic |-> DefaultEntry, handler |-> h])
    /\ hLookup' = NoLookup
    /\ UNCHANGED notRegVars

GetHandler(t) ==
    /\ hLookup' = [called |-> TRUE, topic |-> t, result |-> get_handler(hreg, t)]
    /\ UNCHANGED <<hreg, regLog, notRegVars>>

InitRegistryUse ==
    /\ InitWorkers
    /\ busKind = "ebf"
    /\ InitKey
    /\ InitRegistry
    /\ InitService
    /\ subError = None
    /\ InitFn
    /\ InitCalls

NextRegistry ==
    \/ \E t \in SvcTopics, h \in Handlers : RegisterHandler(t, h)
    \/ \E hs \in [SvcTopics -> Handlers \cup {None}] : RegisterHandlers(hs)
    \/ \E h \in Handlers \cup {None} : SetDefaultHandler(h)
    \/ \E t \in SvcTopics : GetHandler(t)

SpecRegistry == InitRegistryUse /\ [][NextRegistry]_vars

\* the positions of the history that registered name
EntriesFor(name) == {i \in 1..Len(regLog) : regLog[i].topic = name}

\* the handler registered last under name, None if there is none
LastRegistered(name) ==
    IF EntriesFor(name) = {} THEN None
    ELSE regLog[CHOOSE i \in EntriesFor(name) : \A j \in EntriesFor(name) : j <= i].handler

\* C18: registry lookup rule.  After any sequence of register_handler,
\* register_handlers and set_default_handler calls, get_handler(topic)
\* returns the handler last registered for that topic if there is one, even
\* when a default is set; otherwise the default handler if one is set;
\* otherwise it raises.
C18_LookupRule ==
    hLookup.called =>
        hLookup.result =
            IF LastRegistered(hLookup.topic) # None THEN LastRegistered(hLookup.topic)
            ELSE IF LastRegistered(DefaultEntry) # None THEN LastRegistered(DefaultEntry)
            ELSE "ValueError"

\* C18 witness: a lookup returned the handler that replaced an earlier one
\* for its topic, while a different default handler was set
C18_Witness ==
    /\ hLookup.called
    /\ Cardinality(EntriesFor(hLookup.topic)) >= 2
    /\ LastRegistered(DefaultEntry) \notin {None, hLookup.result}
    /\ hLookup.result = LastRegistered(hLookup.topic)

\* ---------------------------------- BaseServiceManager and its wiring
MaxListed == 2   \* longest topics.subscribe list

\* the lists of at most n topics (a topic may be listed twice)
TopicLists(n) == UNION {[1..k -> SvcTopics] : k \in 0..n}

\* start_async: the four steps in the order of its body
StartOrder == <<"load", "bus", "biz", "subs">>

\* a start_async that would wire the subscriptions before the business
\* components are initialized
AfterStep_SubsBeforeBiz(step, ok) ==
    IF ~ok THEN "idle"
    ELSE CASE step = "load" -> "bus"
           [] step = "bus" -> "subs"
           [] step = "subs" -> "biz"
           [] step = "biz" -> "finish"

\* a start_async that would log the error of a step and go on
AfterStep_GoesOn(step, ok) ==
    CASE step = "load" -> "bus"
      [] step = "bus" -> "biz"
      [] step = "biz" -> "subs"
      [] step = "subs" -> "finish"

\* start_async: where control goes when a step returns (ok) or raises: the
\* except clause logs and re-raises
AfterStep(step, ok) ==
    IF ~ok THEN "idle"
    ELSE CASE step = "load" -> "bus"
           [] step = "bus" -> "biz"
           [] step = "biz" -> "subs"
           [] step = "subs" -> "finish"

\* the service manager's fields after a step of start_async began and
\* returned or raised err
StepEnds(step, err) ==
    /\ smSteps' = Append(smSteps, step)
    /\ smPc' = AfterStep(step, err = None)
    /\ smFailed' = IF err = None THEN smFailed ELSE step
    /\ smRaised' = err

\* a caller awaits start_async
StartAsync ==
    /\ smPc = "idle"
    /\ smPc' = "load"
    /\ smSteps' = <<>>
    /\ smFailed' = "none"
    /\ smRaised' = None
    /\ UNCHANGED <<smRunning, smConfig, smBus, smSubsDone, cfgTopics, cfgDebug,
                   emTopics, emTodo, busLog, svcGroups, svcWorkers, hreg, regLog, hLookup, notSmVars>>

\* load_configuration: self.config = ..., or the loader raises
LoadConfiguration(ok) ==
    /\ smPc = "load"
    /\ StepEnds("load", IF ok THEN None ELSE "Exception")
    /\ smConfig' = (smConfig \/ ok)
    /\ UNCHANGED <<smRunning, smBus, smSubsDone, cfgTopics, cfgDebug,
                   emTopics, emTodo, busLog, svcGroups, svcWorkers, hreg, regLog, hLookup, notSmVars>>

\* initialize_event_bus: self.event_bus = create_event_bus(...), or ValueError
\* (no event_bus configuration) or the factory raises
InitializeEventBus(ok) ==
    /\ smPc = "bus"
    /\ StepEnds("bus", IF ok THEN None ELSE "Exception")
    /\ smBus' = (smBus \/ ok)
    /\ UNCHANGED <<smRunning, smConfig, smSubsDone, cfgTopics, cfgDebug,
                   emTopics, emTodo, busLog, svcGroups, svcWorkers, hreg, regLog, hLookup, notSmVars>>

\* initialize_business_components of the subclass
InitializeBusinessComponents(ok) ==
    /\ smPc = "biz"
    /\ StepEnds("biz", IF ok THEN None ELSE "Exception")
    /\ UNCHANGED <<smRunning, smConfig, smBus, smSubsDone, cfgTopics, cfgDebug,
                   emTopics, emTodo, busLog, svcGroups, svcWorkers, hreg, regLog, hLookup, notSmVars>>

\* the elements of a sequence
Elems(seq) == {seq[i] : i \in 1..Len(seq)}

RECURSIVE RegisterLoop(_, _, _)
\* setup_event_subscriptions, `for topic in input_topics:` register_handler
\* when `topic in message_handlers`: acc is topic_handlers so far (a dict
\* keeps the place of a key that is registered again)
RegisterLoop(listed, handled, acc) ==
    IF listed = <<>> THEN acc
    ELSE RegisterLoop(Tail(listed), handled,
                      IF Head(listed) \in handled /\ Head(listed) \notin Elems(acc)
                      THEN Append(acc, Head(listed)) ELSE acc)

\* a wiring that would register every listed topic, handler or not
RegisteredTopics_AllListed(listed, handled) == RegisterLoop(listed, SvcTopics, <<>>)

\* the manager's topic_handlers after the registration loop
RegisteredTopics(listed, handled) == RegisterLoop(listed, handled, <<>>)

\* one call recorded in busLog
Call(op, topic, key, grp, handler, ok) ==
    [op |-> op, topic |-> topic, key |-> key, group |-> grp, handler |-> handler,
     ok |-> ok]

\* a reset that would destroy the group on the logical topic name
DestroyCalls_NoPrefix(debug, topics, grp) ==
    IF ~debug THEN <<>>
    ELSE [i \in 1..Len(topics) |-> Call("destroy", topics[i], topics[i], grp, None, TRUE)]

\* a reset that would not look at debug_mode and would destroy the group on
\* the stream of every topic
DestroyCalls_Unscoped(debug, topics, grp) ==
    [i \in 1..Cardinality(SvcTopics) |->
        LET t == IF i = 1 THEN <<"a">> ELSE <<"b">>
        IN Call("destroy", t, LibsBuildTopicKey(TopicPrefix, t), grp, None, TRUE)]

\* _reset_consumer_groups_for_debug: nothing unless debug_mode; else one
\* xgroup_destroy(topic_key, consumer_group_name) per key of topic_handlers
DestroyCalls(debug, topics, grp) ==
    IF ~debug THEN <<>>
    ELSE [i \in 1..Len(topics) |->
            Call("destroy", topics[i], LibsBuildTopicKey(TopicPrefix, topics[i]), grp,
                 None, TRUE)]

\* a response error of XGROUP CREATE other than BUSYGROUP (the key holds a
\* value of another type)
WrongType == "WRONGTYPE"

\* RedisStreamEventBus.subscribe: what its caller sees for a response of
\* XGROUP CREATE (create_group ignores BUSYGROUP and raises the adapter's
\* ConnectionError for any other response error)
LibsSubscribeRaises(resp) ==
    IF resp \in {"OK", "BUSYGROUP"} THEN None ELSE "ConnectionError"

\* RedisStreamsEventBus.subscribe: BUSYGROUP is ignored; for any other
\* response error ConsumerGroupError is raised inside the try block, whose
\* `except Exception` raises SubscribeError from it
EbfSubscribeRaises(resp) ==
    IF resp \in {"OK", "BUSYGROUP"} THEN None ELSE "SubscribeError"

\* the end of setup_event_subscriptions: it returns, or its except clause
\* re-raises err
SubsEnds(err) ==
    /\ smPc' = AfterStep("subs", err = None)
    /\ smFailed' = IF err = None THEN smFailed ELSE "subs"
    /\ smRaised' = err
    /\ smSubsDone' = (smSubsDone \/ err = None)

\* setup_event_subscriptions up to the call of setup_subscriptions: a new
\* EventSubscriptionManager, get_message_handlers() (the registry's
\* get_all_handlers; it raises when the registry is missing), the
\* registration loop; setup_subscriptions returns at once when no handler is
\* registered
SetupEventSubscriptions(ok) ==
    /\ smPc = "subs"
    /\ smSteps' = Append(smSteps, "subs")
    /\ busLog' = <<>>
    /\ emTodo' = <<>>
    /\ IF ~ok
       THEN /\ SubsEnds("ValueError")
            /\ emTopics' = <<>>
       ELSE /\ emTopics' = RegisteredTopics(cfgTopics, get_all_handlers(hreg))
            /\ IF emTopics' = <<>>
               THEN SubsEnds(None)
               ELSE /\ smPc' = "reset"
                    /\ UNCHANGED <<smFailed, smRaised, smSubsDone>>
    /\ UNCHANGED <<smRunning, smConfig, smBus, cfgTopics, cfgDebug, svcGroups, svcWorkers,
                   hreg, regLog, hLookup, notSmVars>>

\* a reset whose loop would end at the first xgroup_destroy that fails
DestroyLog_StopsAtError(ds, applied) ==
    LET failed == {i \in 1..Len(ds) : i \notin applied}
        last == IF failed = {} THEN Len(ds)
                ELSE CHOOSE i \in failed : \A j \in failed : i <= j
    IN [i \in 1..last |-> [ds[i] EXCEPT !.ok = i \in applied]]

\* _reset_consumer_groups_for_debug, the try block inside its loop: a call
\* that fails is logged and the loop goes on (applied: the positions of the
\* calls that the broker carried out)
DestroyLog(ds, applied) ==
    [i \in 1..Len(ds) |-> [ds[i] EXCEPT !.ok = i \in applied]]

\* setup_subscriptions: _reset_consumer_groups_for_debug.  Every destroy is
\* issued; an error of the broker or the transport is logged and ignored
ResetConsumerGroups(applied) ==
    /\ smPc = "reset"
    /\ LET ds == DestroyLog(DestroyCalls(cfgDebug, emTopics, OwnGroup), applied)
       IN /\ busLog' = busLog \o ds
          /\ svcGroups' = svcGroups \ {<<ds[i].key, ds[i].group>> :
                                           i \in {j \in 1..Len(ds) : ds[j].ok}}
    /\ emTodo' = emTopics
    /\ smPc' = "subscribe"
    /\ UNCHANGED <<smRunning, smConfig, smBus, smSubsDone, smSteps, smFailed, smRaised,
                   cfgTopics, cfgDebug, emTopics, svcWorkers, hreg, regLog, hLookup,
                   notSmVars>>

\* RedisStreamEventBus.subscribe after create_group: the worker of the
\* subscription key is replaced by a new one, which is started
WorkersAfterSubscribe(workers, t) == workers \cup {t}

\* setup_subscriptions: one turn of `for topic, handler in
\* self.topic_handlers.items():` event_bus.subscribe(topic, wrapper, group,
\* consumer).  The bus answers XGROUP CREATE with OK, with BUSYGROUP when
\* the group exists, or (rejected) with another error, which ends the wiring
SubscribeNext(rejected) ==
    /\ smPc = "subscribe"
    /\ emTodo # <<>>
    /\ LET t == Head(emTodo)
           key == LibsBuildTopicKey(TopicPrefix, t)
           resp == IF rejected THEN WrongType
                   ELSE IF <<key, OwnGroup>> \in svcGroups THEN "BUSYGROUP" ELSE "OK"
           err == LibsSubscribeRaises(resp)
       IN /\ busLog' = Append(busLog, Call("subscribe", t, key, OwnGroup,
                                           hreg.handlers[t], err = None))
          /\ IF err = None
             THEN /\ svcGroups' = svcGroups \cup {<<key, OwnGroup>>}
                  /\ svcWorkers' = WorkersAfterSubscribe(svcWorkers, t)
                  /\ emTodo' = Tail(emTodo)
                  /\ IF Tail(emTodo) = <<>>
                     THEN SubsEnds(None)
                     ELSE UNCHANGED <<smPc, smFailed, smRaised, smSubsDone>>
             ELSE \* the except clauses of setup_subscriptions,
                  \* setup_event_subscriptions and start_async log and
                  \* re-raise: the workers already started are left alone
                  /\ SubsEnds(err)
                  /\ UNCHANGED <<svcGroups, svcWorkers, emTodo>>
    /\ UNCHANGED <<smRunning, smConfig, smBus, smSteps, cfgTopics, cfgDebug, emTopics,
                   hreg, regLog, hLookup, notSmVars>>

\* start_async after the four steps: self.running = True, return
FinishStart ==
    /\ smPc = "finish"
    /\ smRunning' = TRUE
    /\ smPc' = "idle"
    /\ UNCHANGED <<smConfig, smBus, smSubsDone, smSteps, smFailed, smRaised, cfgTopics,
                   cfgDebug, emTopics, emTodo, busLog, svcGroups, svcWorkers, hreg, regLog, hLookup,
                   notSmVars>>

\* stop_async: self.running = False, then stop_all_subscriptions on the bus,
\* which tells every registered worker to stop
StopAsync ==
    /\ smPc = "idle"
    /\ smRunning' = FALSE
    /\ svcWorkers' = {}
    /\ UNCHANGED <<smPc, smConfig, smBus, smSubsDone, smSteps, smFailed, smRaised,
                   cfgTopics, cfgDebug, emTopics, emTodo, busLog, svcGroups, hreg, regLog,
                   hLookup, notSmVars>>

\* a service: its configuration file, the handler registry its business
\* components build, and what earlier runs left on the broker
InitServiceUse ==
    /\ InitWorkers
    /\ busKind = "libs"
    /\ handlerOf = [t \in Topics |-> "sync"]
    /\ InitKey
    /\ subError = None
    /\ InitFn
    /\ InitCalls
    /\ InitServiceManager
    /\ hreg \in [handlers : [SvcTopics -> {None, "h1"}], default : {None, "h2"}]
    /\ regLog = <<>>
    /\ hLookup = NoLookup
    /\ cfgTopics \in TopicLists(MaxListed)
    /\ cfgDebug \in BOOLEAN
    /\ svcGroups \in {ForeignGroups \cup own : own \in SUBSET OwnGroups}
    /\ svcWorkers = {}

NextService ==
    \/ StartAsync
    \/ \E ok \in BOOLEAN : LoadConfiguration(ok)
    \/ \E ok \in BOOLEAN : InitializeEventBus(ok)
    \/ \E ok \in BOOLEAN : InitializeBusinessComponents(ok)
    \/ \E ok \in BOOLEAN : SetupEventSubscriptions(ok)
    \/ \E applied \in SUBSET (1..MaxListed) : ResetConsumerGroups(applied)
    \/ \E rejected \in BOOLEAN : SubscribeNext(rejected)
    \/ FinishStart
    \/ StopAsync

SpecService == InitServiceUse /\ [][NextService]_vars

IsPrefix(a, b) == Len(a) <= Len(b) /\ SubSeq(b, 1, Len(a)) = a

\* the positions of busLog that are XGROUP DESTROY / bus.subscribe calls
Destroys == {i \in 1..Len(busLog) : busLog[i].op = "destroy"}
Subscribes == {i \in 1..Len(busLog) : busLog[i].op = "subscribe"}

\* the stream keys of the topics registered in the manager
RegisteredKeys == {LibsBuildTopicKey(TopicPrefix, t) : t \in Elems(emTopics)}

\* C12: start template order.  start_async runs load_configuration,
\* initialize_event_bus, initialize_business_components and
\* setup_event_subscriptions once each in this order and sets running only
\* after all four have returned; running implies that the config was loaded,
\* the bus was built and the subscriptions were set up.
C12_StartOrder ==
    /\ IsPrefix(smSteps, StartOrder)
    /\ smPc = "finish" => smSteps = StartOrder /\ smFailed = "none"
    /\ smRunning => smConfig /\ smBus /\ smSubsDone

\* C12 witness: a started service, after a wiring that subscribed a topic
C12_Witness ==
    /\ smRunning
    /\ smSteps = StartOrder
    /\ smPc = "idle"
    /\ Subscribes # {}

\* C13: start aborts on failure.  When one of the four start steps raises
\* (a subscribe error during the wiring included), start_async raises to its
\* caller, none of the later steps is executed, and running is not set.
C13_StartAborts ==
    [][smFailed' # "none" =>
          /\ smPc' = "idle"
          /\ smRaised' # None
          /\ smSteps' # <<>>
          /\ smSteps'[Len(smSteps')] = smFailed'
          /\ smFailed = "none" => smRunning' = smRunning
          /\ smFailed # "none" => ~(smRunning' /\ ~smRunning)]_vars

\* C13 witness: the second subscribe of a wiring was rejected and the start
\* ended with the bus's error, not running
C13_Witness ==
    /\ smFailed = "subs"
    /\ smRaised = "ConnectionError"
    /\ ~smRunning
    /\ \E i, j \in Subscribes : busLog[i].ok /\ ~busLog[j].ok

\* C14: debug reset precedes subscription.  With debug_mode on, the wiring
\* issues XGROUP DESTROY exactly once for each registered topic, on the
\* topic's full stream key (the key its subscribe uses) and with the
\* manager's group, and every destroy precedes the first subscribe call.
C14_ResetBeforeSubscribe ==
    (cfgDebug /\ (smPc = "subscribe" \/ Subscribes # {})) =>
        /\ \A t \in Elems(emTopics) :
              Cardinality({i \in Destroys :
                              /\ busLog[i].topic = t
                              /\ busLog[i].key = LibsBuildTopicKey(TopicPrefix, t)
                              /\ busLog[i].group = OwnGroup}) = 1
        /\ Cardinality(Destroys) = Len(emTopics)
        /\ \A j \in Subscribes :
              \E i \in Destroys : /\ i < j
                                  /\ busLog[i].key = busLog[j].key
                                  /\ busLog[i].group = busLog[j].group
        /\ \A i \in Destroys : \A j \in Subscribes : i < j

\* C14 witness: a debug wiring of two topics has destroyed two groups and
\* subscribed both topics
C14_Witness ==
    /\ cfgDebug
    /\ smPc = "finish"
    /\ Cardinality(Destroys) = 2
    /\ Cardinality(Subscribes) = 2

\* C15: debug reset is scoped.  The manager destroys only its own group on
\* the stream keys of the topics registered in it: no group of another
\* service and no group on the stream of an unregistered topic disappears;
\* with debug_mode off no XGROUP DESTROY is issued.
C15_ResetScoped ==
    [][/\ \A pair \in svcGroups \ svcGroups' :
             pair[2] = OwnGroup /\ pair[1] \in RegisteredKeys
       /\ \A i \in Destroys' :
             busLog'[i].group = OwnGroup /\ busLog'[i].key \in RegisteredKeys'
       /\ ~cfgDebug => Destroys' = {}]_vars

\* C15 witness: a debug reset removed the own group of the registered topic
\* and left the own group on the stream of the unregistered one
C15_Witness ==
    /\ cfgDebug
    /\ smPc = "subscribe"
    /\ emTopics = <<<<"a">>>>
    /\ Destroys # {}
    /\ svcGroups = ForeignGroups \cup {<<LibsBuildTopicKey(TopicPrefix, <<"b">>), OwnGroup>>}

\* C16: subscribed set.  After setup_event_subscriptions the topics for
\* which bus.subscribe was called are the listed topics that are keys of
\* get_message_handlers(), each with exactly one call and the resolved
\* group; a listed topic without a handler is skipped without error; when
\* no topic qualifies no subscribe call is made.
C16_SubscribedSet ==
    smPc = "finish" =>
        LET want == Elems(cfgTopics) \cap get_all_handlers(hreg)
        IN /\ {busLog[j].topic : j \in Subscribes} = want
           /\ \A t \in want :
                 Cardinality({j \in Subscribes : busLog[j].topic = t}) = 1
           /\ \A j \in Subscribes : busLog[j].group = OwnGroup /\ busLog[j].ok
           /\ smFailed = "none"

\* C16 witness: of two listed topics the one with a handler was subscribed
\* and the one without was skipped
C16_Witness ==
    /\ smPc = "finish"
    /\ Len(cfgTopics) = 2
    /\ Cardinality(Subscribes) = 1
    /\ \E t \in Elems(cfgTopics) : t \notin get_all_handlers(hreg)

\* C17: no-handler error at wiring.  A listed topic with neither a handler
\* of its own nor a default handler in the service's registry makes the
\* wiring fail, so the start does not complete; a listed topic with only the
\* default handler is subscribed with the default handler.
C17_NoHandlerError ==
    smPc = "finish" =>
        \A t \in Elems(cfgTopics) :
            /\ get_handler(hreg, t) # "ValueError"
            /\ \E j \in Subscribes : /\ busLog[j].topic = t
                                     /\ busLog[j].handler = get_handler(hreg, t)

\* ------------------------------------------------ subscribe, group creation
\* a subscribe that would stop the registered worker of the key before it
\* creates the group
WorkersAfterRejected_StopsOld(workers, old) ==
    [th \in ThreadIds |-> IF th = old THEN StopWorker(workers[th]) ELSE workers[th]]

\* the worker threads after a subscribe whose group creation raised: the
\* error leaves the call before `if subscription_key in ...`, so the
\* registered worker of the key (old) is not stopped
WorkersAfterRejected(workers, old) == workers

\* subscribe when XGROUP CREATE is rejected: the call raises before a thread
\* is constructed or registered; subError is what its caller receives
SubscribeRejected(t) ==
    /\ busKind = "ebf" => mainPc.pc = "idle"
    /\ subError' = IF busKind = "libs" THEN LibsSubscribeRaises(WrongType)
                   ELSE EbfSubscribeRaises(WrongType)
    /\ thr' = WorkersAfterRejected(thr, registry[t])
    /\ UNCHANGED <<busKind, handlerOf, stream, group, registry, mainPc, syncLock,
                   asyncLock, calls, xacks>>
    /\ UNCHANGED <<keyVars, regVars, smVars, callVars, fnVars>>

NextSubscribe ==
    \/ Next
    \/ \E t \in Topics : SubscribeRejected(t)

SpecSubscribe == Init /\ [][NextSubscribe]_vars

\* C20: group creation errors.  A BUSYGROUP response to XGROUP CREATE is
\* ignored: subscribe on a topic whose group exists can proceed and start a
\* worker whenever the bus can take a subscription at all; any other
\* response error reaches the caller of subscribe as a ConsumerGroupError.
C20_GroupCreationErrors ==
    /\ subError \in {None, "ConsumerGroupError"}
    /\ \A t \in Topics :
          (group[t] # NoGroup /\ FreeThreads # {} /\ mainPc = Idle) =>
              ENABLED (SubscribeLibs(t) \/ SubscribeEbfBegin(t, FALSE))

\* ------------------------------------------------- subscribe, start_from_id
\* RedisStreamsEventBus with subscriptions of either start_from_id, on a
\* broker that carries the entries this bus published and answers every
\* command
InitStartFrom ==
    /\ Init
    /\ busKind = "ebf"

\* the steps of one MessageHandlerLoopThread
LoopThreadStep(th) ==
    \/ RunBegin(th)
    \/ LoopCheck(th)
    \/ ReadMessages(th)
    \/ \E r \in Results : HandlerReturn(th, r)
    \/ WorkerAck(th, TRUE)

NextStartFrom ==
    \/ \E t \in Topics : Publish(t)
    \/ \E t \in Topics, a \in BOOLEAN, from \in StartIds : SubscribeEbf(t, a, from)
    \/ SubscribeEbfFinish
    \/ \E th \in ThreadIds : StopThread(th)
    \/ \E th \in ThreadIds : LoopThreadStep(th)

SpecStartFrom == InitStartFrom /\ [][NextStartFrom]_vars

\* C21: start position is used only at group creation.  Every XREADGROUP of
\* a MessageHandlerLoopThread reads with the '>' cursor whatever the
\* start_from_id of its subscribe was, so a subscription on an existing
\* group receives the entries not yet delivered to the group and no entry is
\* handed to a handler twice.
C21_StartOnlyAtCreation ==
    /\ \A th \in ThreadIds :
          thr[th].pc # "none" => ReadCursor(busKind, thr[th]) = ">"
    /\ \A t \in Topics : \A id \in 1..MaxMsgs : Invocations(t, id) <= 1

\* ------------------------------------------------------ worker's auto-ack
\* the invocations of id by the workers of t that returned without raising
\* and whose worker has gone on, by workers with the given auto_acknowledge
ReturnedCalls(t, id, autoAck) ==
    {<<th, i>> \in ThreadIds \X (1..MaxMsgs) :
        /\ thr[th].topic = t
        /\ thr[th].autoAck = autoAck
        /\ i \in CallsOf(th)
        /\ calls[th][i].id = id
        /\ calls[th][i].result \in {"true", "false"}
        /\ WorkerDone(th, i)}

C23_MalformedStaysPending ==
    \A t \in Topics : \A id \in 1..Len(stream[t]) :
        stream[t][id] = "malformed" =>
            /\ Invocations(t, id) = 0
            /\ AcksFor(t, id) = 0

\* ------------------------------------------------------------------ publish
MaxPublished == 3   \* entries ever appended by publish

\* the payloads a service publishes (JSON objects)
Payloads == {"x", "y"}

\* json.dumps / serialize_to_json, and the object a JSON text denotes
ToJson(value) == <<"json", value>>
FromJson(text) == text[2]
IsJson(text) == Len(text) = 2 /\ text[1] = "json"

\* EventEnvelope as build_event_envelope fills it and model_dump() returns
\* it; n stands for the fresh uuid and the time of the call
EventEnvelope(payload, n) ==
    [event_id |-> <<"uuid", n>>, event_type |-> "UnknownEventType",
     source_service |-> "svc", published_at_utc |-> <<"utc", n>>,
     trace_id |-> None, dialogue_session_id |-> None, version |-> "1.0",
     actual_payload |-> payload]

\* RedisStreamsEventBus.publish: the fields of its XADD
EbfEntryFields(payload, n) ==
    [f \in {"payload"} |-> ToJson(EventEnvelope(payload, n))]

\* RedisStreamEventBus.publish: the fields of its XADD
LibsEntryFields(payload, n) ==
    [source |-> "svc", timestamp |-> <<"ms", n>>, id |-> <<"uuid", n>>,
     data |-> ToJson(payload)]

\* the stream key of a topic on each bus
StreamKey(kind, topic) ==
    IF kind = "libs" THEN LibsBuildTopicKey(TopicPrefix, topic)
    ELSE build_topic_key(TopicPrefix, topic)

\* a publish whose except clause would log the error and return
PublishRaises_Swallowed(kind, ok) == None

\* what publish raises when its XADD succeeds (ok) or fails: both buses
\* catch the error and raise PublishError
PublishRaises(kind, ok) == IF ok THEN None ELSE "PublishError"

\* publish(topic, payload): one XADD; the broker appends the entry and
\* returns its id, or the command fails
PublishCall(topic, payload, ok) ==
    /\ Len(wire) < MaxPublished
    /\ LET n == Len(wire) + 1
           fields == IF busKind = "libs" THEN LibsEntryFields(payload, n)
                     ELSE EbfEntryFields(payload, n)
       IN /\ wire' = IF ok THEN Append(wire, <<StreamKey(busKind, topic), fields>>)
                     ELSE wire
          /\ pubOut' = [called |-> TRUE, topic |-> topic, payload |-> payload,
                        id |-> IF ok THEN <<n>> ELSE NoId,
                        raised |-> PublishRaises(busKind, ok),
                        attempts |-> 1]
    /\ UNCHANGED <<ackPel, ackOut, wrap, notCallVars>>

InitPublish ==
    /\ InitWorkers
    /\ handlerOf = [t \in Topics |-> "raw"]
    /\ InitKey
    /\ InitRegistry
    /\ InitService
    /\ subError = None
    /\ InitFn
    /\ InitCalls

NextPublish ==
    \E topic \in SvcTopics, payload \in Payloads, ok \in BOOLEAN :
        PublishCall(topic, payload, ok)

SpecPublish == InitPublish /\ [][NextPublish]_vars

\* the keys the envelope of the wire format must have
EnvelopeKeys ==
    {"event_id", "event_type", "source_service", "published_at_utc", "version",
     "actual_payload"}

\* an entry in the wire format: one field, payload, holding the JSON text of
\* an envelope of version 1.0
WireFormat(fields) ==
    /\ DOMAIN fields = {"payload"}
    /\ IsJson(fields["payload"])
    /\ EnvelopeKeys \subseteq DOMAIN FromJson(fields["payload"])
    /\ FromJson(fields["payload"]).version = "1.0"

\* C24: wire format of publish.  Every successful publish(topic, payload),
\* on either bus, appends exactly one entry to the stream <prefix>:<topic>;
\* the entry has exactly one field, payload, whose JSON object has the keys
\* of the envelope, version "1.0" and actual_payload equal to the payload.
C24_WireFormat ==
    /\ \A i \in 1..Len(wire) : WireFormat(wire[i][2])
    /\ (pubOut.called /\ pubOut.raised = None) =>
          /\ wire # <<>>
          /\ pubOut.id = <<Len(wire)>>
          /\ wire[Len(wire)][1] = TopicPrefix \o <<":">> \o pubOut.topic
          /\ WireFormat(wire[Len(wire)][2])
          /\ FromJson(wire[Len(wire)][2]["payload"]).actual_payload = pubOut.payload

MaxIds == 2   \* ids in one acknowledge call, and ids of the stream

AckIds == 1..MaxIds
IdLists == UNION {[1..k -> AckIds] : k \in 0..MaxIds}

\* a Python return value: an int, or a bool (True == 1, False == 0), or
\* nothing when the call raised
PyInt(n) == [type |-> "int", val |-> n]
PyBool(b) == [type |-> "bool", val |-> IF b THEN 1 ELSE 0]
PyNone == [type |-> "none", val |-> 0]

\* XACK <key> <group> id...: the number of the ids that were pending
XAckReply(pel, ids) == Cardinality(pel \cap Elems(ids))

\* RedisStreamsEventBus.acknowledge: the XACK commands it sends, what it
\* returns and what it raises (ok: the XACK succeeds)
EbfAckXacks(ids) == IF ids = <<>> THEN 0 ELSE 1
EbfAckResult(pel, ids, ok) ==
    IF ids = <<>> THEN PyInt(0)
    ELSE IF ok THEN PyInt(XAckReply(pel, ids)) ELSE PyNone
EbfAckRaises(ids, ok) == IF ids = <<>> \/ ok THEN None ELSE "AcknowledgeError"

\* RedisStreamEventBus.acknowledge: it sends the XACK whatever the list (the
\* broker rejects an XACK without ids), returns `result > 0`, and returns
\* False from its except clause
LibsAckXacks(ids) == 1
LibsAckResult(pel, ids, ok) ==
    IF ids = <<>> \/ ~ok THEN PyBool(FALSE)
    ELSE PyBool(XAckReply(pel, ids) > 0)
LibsAckRaises(ids, ok) == None

\* bus.acknowledge(topic, group, ids)
AcknowledgeCall(topic, ids, ok) ==
    /\ LET libs == busKind = "libs"
           applied == ok /\ ids # <<>>
       IN /\ ackOut' = [called |-> TRUE,
                        key |-> StreamKey(busKind, topic),
                        ids |-> ids,
                        result |-> IF libs THEN LibsAckResult(ackPel, ids, ok)
                                   ELSE EbfAckResult(ackPel, ids, ok),
                        raised |-> IF libs THEN LibsAckRaises(ids, ok)
                                   ELSE EbfAckRaises(ids, ok),
                        xacks |-> IF libs THEN LibsAckXacks(ids) ELSE EbfAckXacks(ids),
                        topic |-> topic,
                        failed |-> ~ok /\ ids # <<>>,
                        confirmed |-> IF applied THEN XAckReply(ackPel, ids) ELSE 0]
          /\ ackPel' = IF applied THEN ackPel \ Elems(ids) ELSE ackPel
    /\ UNCHANGED <<wire, pubOut, wrap, notCallVars>>

\* an entry is delivered to the group and becomes pending
Deliver(id) ==
    /\ id \notin ackPel
    /\ ackPel' = ackPel \cup {id}
    /\ UNCHANGED <<wire, pubOut, ackOut, wrap, notCallVars>>

InitAcknowledge ==
    /\ InitWorkers
    /\ handlerOf = [t \in Topics |-> "raw"]
    /\ InitKey
    /\ InitRegistry
    /\ InitService
    /\ subError = None
    /\ InitFn
    /\ InitCalls

NextAcknowledge ==
    \/ \E topic \in SvcTopics, ids \in IdLists, ok \in BOOLEAN :
          AcknowledgeCall(topic, ids, ok)
    \/ \E id \in AckIds : Deliver(id)

SpecAcknowledge == InitAcknowledge /\ [][NextAcknowledge]_vars

\* C26: acknowledge result.  bus.acknowledge(topic, group, ids) sends one
\* XACK on <prefix>:<topic> for all the ids and returns the number of ids the
\* broker confirms (an id that is not pending counts 0); with an empty list
\* it returns 0.
C26_AcknowledgeResult ==
    (ackOut.called /\ ~ackOut.failed) =>
        /\ ackOut.result.type # "none"
        /\ ackOut.result.val = ackOut.confirmed
        /\ ackOut.ids = <<>> => ackOut.result.val = 0
        /\ ackOut.ids # <<>> =>
              /\ ackOut.xacks = 1
              /\ ackOut.key = TopicPrefix \o <<":">> \o ackOut.topic

\* C27: acknowledge failure of the factory-built bus.  When the XACK fails,
\* RedisStreamEventBus.acknowledge raises SubscribeError to its caller.
C27_AcknowledgeRaises ==
    (busKind = "libs" /\ ackOut.called /\ ackOut.failed) =>
        ackOut.raised = "SubscribeError"

\* ------------------------------------------------ manager, failing acks
\* C28: an ack failure does not stop processing.  When the manager's
\* event_bus.acknowledge fails (the message stays pending), the wrapper
\* returns to the worker as after a success and the ack lock is free again,
\* and a lock is never held outside an acknowledge.
C28_AckFailureGoesOn ==
    [][\A th \in ThreadIds :
          /\ (/\ thr[th].pc = "mack"
              /\ thr'[th].pc # "mack"
              /\ thr[th].cur \in group'[thr[th].topic].pel) =>
                 /\ thr'[th].pc = "wack"
                 /\ syncLock' # th
                 /\ asyncLock' # th
          /\ (syncLock' = th \/ asyncLock' = th) => thr'[th].pc = "mack"]_vars

\* C28 witness: the acknowledgements for a worker's first message failed
\* (it is still pending); the worker went on, its second message was
\* handled and acknowledged by the manager
C28_Witness ==
    \E th \in ThreadIds :
        LET t == thr[th].topic
        IN /\ Wrapped(th)
           /\ Len(calls[th]) = 2
           /\ calls[th][1].result = "true"
           /\ calls[th][1].id \in group[t].pel
           /\ AcksBy("manager", t, calls[th][1].id) = 1
           /\ calls[th][2].result = "true"
           /\ calls[th][2].id \notin group[t].pel
           /\ AcksBy("manager", t, calls[th][2].id) = 1
           /\ WorkerDone(th, 2)

\* ------------------------------------- manager, the wrappers of two topics
MaxSeen == 2   \* messages the worker of one topic passes to its wrapper

\* the holder of a lock is the topic whose wrapper acquired it
NoHolder == NoThread
HolderId(t) == IF t = <<"a">> THEN 1 ELSE 2

\* what the wrappers leave alone
notWrapVars == <<busKind, handlerOf, stream, group, thr, registry, mainPc, calls, xacks,
                 wire, pubOut, ackPel, ackOut, keyVars, regVars, smVars, subError, fnVars>>

\* the worker of topic t passes a message to message_wrapper, which calls
\* the business handler (_handle_sync_message, or asyncio.run(process_async())
\* in the worker thread)
WrapperCall(t) ==
    /\ wrap[t].pc = "idle"
    /\ wrap[t].seen < MaxSeen
    /\ wrap' = [wrap EXCEPT ![t].pc = "handler", ![t].seen = @ + 1]
    /\ UNCHANGED <<syncLock, asyncLock, notWrapVars>>

\* the business handler returns r or raises: `if success:` the wrapper goes
\* on to acknowledge under its lock, else it returns
WrapperHandlerReturn(t, r) ==
    /\ wrap[t].pc = "handler"
    /\ wrap' = [wrap EXCEPT ![t].pc = IF ManagerAcks(wrap[t].hk, r) THEN "mlock"
                                      ELSE "idle"]
    /\ UNCHANGED <<syncLock, asyncLock, notWrapVars>>

\* `with self._sync_lock:` / `async with self._async_lock:` when the lock of
\* the handler's mode is free
WrapperLock(t) ==
    /\ wrap[t].pc = "mlock"
    /\ \/ /\ wrap[t].hk = "sync"
          /\ syncLock = NoHolder
          /\ syncLock' = HolderId(t)
          /\ UNCHANGED asyncLock
       \/ /\ wrap[t].hk = "async"
          /\ asyncLock = NoHolder
          /\ asyncLock' = HolderId(t)
          /\ UNCHANGED syncLock
    /\ wrap' = [wrap EXCEPT ![t].pc = "mack"]
    /\ UNCHANGED notWrapVars

\* `async with self._async_lock:` while the coroutine of another worker
\* thread holds the asyncio.Lock: RuntimeError (caught, the wrapper returns)
\* or a wait that never ends
WrapperLockContended(t, o) ==
    /\ wrap[t].pc = "mlock"
    /\ wrap[t].hk = "async"
    /\ asyncLock # NoHolder
    /\ wrap' = [wrap EXCEPT ![t].pc = IF o = "error" THEN "idle" ELSE "hung"]
    /\ UNCHANGED <<syncLock, asyncLock, notWrapVars>>

\* event_bus.acknowledge inside the lock returns or fails; the lock is
\* released and the wrapper returns
WrapperAck(t, ok) ==
    /\ wrap[t].pc = "mack"
    /\ syncLock' = LockAfterAck(syncLock, HolderId(t), ok)
    /\ asyncLock' = LockAfterAck(asyncLock, HolderId(t), ok)
    /\ wrap' = [wrap EXCEPT ![t].pc = "idle"]
    /\ UNCHANGED notWrapVars

\* a manager with a handler, sync or async, registered for each topic
InitWrappers ==
    /\ InitWorkers
    /\ busKind = "libs"
    /\ handlerOf = [t \in Topics |-> "sync"]
    /\ InitKey
    /\ InitRegistry
    /\ InitService
    /\ subError = None
    /\ InitFn
    /\ wire = <<>>
    /\ pubOut = NoPublish
    /\ ackPel = {}
    /\ ackOut = NoAcknowledge
    /\ wrap \in [SvcTopics -> {[NoWrapper EXCEPT !.hk = hk] : hk \in {"sync", "async"}}]

NextWrappers ==
    \/ \E t \in SvcTopics : WrapperCall(t)
    \/ \E t \in SvcTopics, r \in Results : WrapperHandlerReturn(t, r)
    \/ \E t \in SvcTopics : WrapperLock(t)
    \/ \E t \in SvcTopics, o \in AsyncLockOutcomes : WrapperLockContended(t, o)
    \/ \E t \in SvcTopics, ok \in BOOLEAN : WrapperAck(t, ok)

SpecWrappers == InitWrappers /\ [][NextWrappers]_vars

\* C29: acks do not interleave.  Within one EventSubscriptionManager at most
\* one of its event_bus.acknowledge calls is in progress at any time,
\* whether the calls come from sync handlers, from async handlers or from
\* one of each.
C29_AcksDoNotInterleave ==
    Cardinality({t \in SvcTopics : wrap[t].pc = "mack"}) <= 1

\* C30: same-topic handlers run sequentially.  For one topic within one
\* consumer at most one business-handler invocation is in progress at any
\* time, and a worker starts the handler for a message only after the handler
\* for its previous message has returned.
C30_SameTopicSequential ==
    /\ \A t \in Topics :
          Cardinality({th \in ThreadIds :
                          thr[th].topic = t /\ thr[th].pc = "handler"}) <= 1
    /\ \A th \in ThreadIds : \A i \in CallsOf(th) :
          i < Len(calls[th]) => calls[th][i].result # "pending"

\* ------------------------------------------------------ get_service_config
\* the keys and values of the event_bus and logging sections of a config file
ConfKeys == {"k1", "k2"}
ConfValues == {"v1", "v2"}

\* the Python dicts over these keys and values
Dicts == UNION {[d -> ConfValues] : d \in SUBSET ConfKeys}

EmptyDict == [k \in {} |-> "v1"]

\* a section of a mapping: absent, or present with a dict
Sections == {[present |-> FALSE, map |-> EmptyDict]}
               \cup {[present |-> TRUE, map |-> d] : d \in Dicts}

\* the loaded config file: the top-level sections event_bus and logging, and
\* the section of the service (absent, or with its own sub-maps)
Configs ==
    [event_bus : Sections, logging : Sections,
     service : {[present |-> FALSE, event_bus |-> s, logging |-> s] :
                   s \in {[present |-> FALSE, map |-> EmptyDict]}}
               \cup [present : {TRUE}, event_bus : Sections, logging : Sections]]

\* dict.update: d with the items of e put over it
Update(d, e) ==
    [k \in DOMAIN d \cup DOMAIN e |-> IF k \in DOMAIN e THEN e[k] ELSE d[k]]

\* service_config.setdefault(name, {}).update(config[name]), under the test
\* `if name in config`
MergeSection(own, top) ==
    IF top.present
    THEN [present |-> TRUE,
          map |-> Update(IF own.present THEN own.map ELSE EmptyDict, top.map)]
    ELSE own

\* common.config.get_service_config, on the config load_config returned
get_service_config(config) ==
    [event_bus |-> MergeSection(config.service.event_bus, config.event_bus),
     logging |-> MergeSection(config.service.logging, config.logging)]

\* a config file is loaded
InitConfig ==
    /\ InitWorkers
    /\ busKind = "libs"
    /\ handlerOf = [t \in Topics |-> "raw"]
    /\ InitKey
    /\ InitRegistry
    /\ InitService
    /\ subError = None
    /\ InitCalls
    /\ fnArgs \in Configs
    /\ fnResult = NoCall

GetServiceConfig ==
    /\ ~fnResult.done
    /\ fnResult' = [done |-> TRUE, value |-> get_service_config(fnArgs)]
    /\ UNCHANGED <<fnArgs, notFnVars>>

NextConfig == GetServiceConfig

SpecConfig == InitConfig /\ [][NextConfig]_vars

\* the merge of two sections in which, for a key of both, the value of
\* `first` wins
MergedWith(first, second) ==
    IF ~first.present /\ ~second.present THEN first
    ELSE [present |-> TRUE,
          map |-> [k \in DOMAIN first.map \cup DOMAIN second.map |->
                      IF k \in DOMAIN first.map THEN first.map[k]
                      ELSE second.map[k]]]

\* C31: config merge precedence.  In the map get_service_config(service)
\* returns, the event_bus and logging sub-maps are the merge of the top-level
\* sections with the service's own sub-maps of the same name, and for a key
\* present in both the service's own value wins.
C31_MergePrecedence ==
    fnResult.done =>
        /\ fnResult.value.event_bus =
              MergedWith(fnArgs.service.event_bus, fnArgs.event_bus)
        /\ fnResult.value.logging =
              MergedWith(fnArgs.service.logging, fnArgs.logging)

\* ------------------------------------------------- get_subscription_config
\* a Python string, and a key a dict does not have
PyStr(str) == [type |-> "str", val |-> str]
Absent == [type |-> "absent", val |-> 0]

\* bool(value), as `or` and `if` take it
Truthy(value) ==
    \/ value.type = "str" /\ value.val # ""
    \/ value.type = "bool" /\ value.val = 1

\* dict.get(key, default), the dict's entry for the key being `entry`
DictGet(entry, default) == IF entry = Absent THEN default ELSE entry

\* the consumer groups, consumer names and debug flags a caller or a config
\* file gives
GroupNames == {PyStr(""), PyStr("custom-group")}
WorkerNames == {PyStr(""), PyStr("custom-worker")}
DebugStrings == {"true", "TRUE", "1", "yes", "on", "false", "no", ""}
DebugFlags == {PyBool(TRUE), PyBool(FALSE)} \cup {PyStr(str) : str \in DebugStrings}

\* str.lower()
Lower(str) == IF str = "TRUE" THEN "true" ELSE str

\* the service's name (get_service_name)
ServiceName == "svc"
DefaultConsumerGroup == PyStr(OwnGroup)
DefaultConsumerName == PyStr("svc-worker")

\* BaseServiceManager.__init__: no override
NoOverrides ==
    [done |-> FALSE, set |-> FALSE, consumer_group |-> PyNone,
     consumer_name |-> PyNone, debug_mode |-> PyNone]

\* `isinstance(debug_mode, str)`: the string becomes a bool
CoerceDebug(value) ==
    IF value.type = "str"
    THEN PyBool(Lower(value.val) \in {"true", "1", "yes", "on"})
    ELSE value

\* `self._x or self.config.get(key, default)`
OverrideOr(field, entry, default) ==
    IF Truthy(field) THEN field ELSE DictGet(entry, default)

\* BaseServiceManager.get_subscription_config
get_subscription_config(self, config) ==
    [consumer_group |-> OverrideOr(self.consumer_group, config.consumer_group,
                                   DefaultConsumerGroup),
     consumer_name |-> OverrideOr(self.consumer_name, config.consumer_name,
                                  DefaultConsumerName),
     debug_mode |-> CoerceDebug(IF self.debug_mode = PyNone
                                THEN DictGet(config.debug_mode, PyBool(FALSE))
                                ELSE self.debug_mode)]

\* a service manager with its config loaded, and the arguments its owner
\* passes to set_consumer_config
InitSubscriptionConfig ==
    /\ InitWorkers
    /\ busKind = "libs"
    /\ handlerOf = [t \in Topics |-> "raw"]
    /\ InitKey
    /\ InitRegistry
    /\ InitService
    /\ subError = None
    /\ InitCalls
    /\ fnArgs \in [config : [consumer_group : {Absent, PyStr("config-group")},
                             consumer_name : {Absent, PyStr("config-worker")},
                             debug_mode : {Absent} \cup DebugFlags],
                   consumer_group : {PyNone} \cup GroupNames,
                   consumer_name : {PyNone} \cup WorkerNames,
                   debug_mode : {PyNone, PyBool(TRUE), PyBool(FALSE)}]
    /\ fnResult = NoOverrides

\* BaseServiceManager.set_consumer_config: an argument that is not None is
\* kept (a subscription config read before the call is out of date)
SetConsumerConfig ==
    /\ ~fnResult.set
    /\ fnResult' = [NoOverrides EXCEPT
                       !.set = TRUE,
                       !.consumer_group = IF fnArgs.consumer_group # PyNone
                                          THEN fnArgs.consumer_group ELSE @,
                       !.consumer_name = IF fnArgs.consumer_name # PyNone
                                         THEN fnArgs.consumer_name ELSE @,
                       !.debug_mode = IF fnArgs.debug_mode # PyNone
                                      THEN fnArgs.debug_mode ELSE @]
    /\ UNCHANGED <<fnArgs, notFnVars>>

GetSubscriptionConfig ==
    /\ ~fnResult.done
    /\ fnResult' = [done |-> TRUE, set |-> fnResult.set,
                    consumer_group |-> fnResult.consumer_group,
                    consumer_name |-> fnResult.consumer_name,
                    debug_mode |-> fnResult.debug_mode,
                    value |-> get_subscription_config(fnResult, fnArgs.config)]
    /\ UNCHANGED <<fnArgs, notFnVars>>

NextSubscriptionConfig ==
    \/ SetConsumerConfig
    \/ GetSubscriptionConfig

SpecSubscriptionConfig == InitSubscriptionConfig /\ [][NextSubscriptionConfig]_vars

\* the value the precedence rule gives: the override set through
\* set_consumer_config if any, else the config value if any, else the default
Precedence(set, override, entry, default) ==
    IF set /\ override # PyNone THEN override
    ELSE IF entry # Absent THEN entry
    ELSE default

\* C32: override precedence.  In get_subscription_config a consumer group,
\* consumer name or debug mode set (non-None) through set_consumer_config
\* takes precedence over the service config; without an override the config
\* value is used; without either the defaults <service>-group,
\* <service>-worker and debug off apply; a string debug flag is coerced to a
\* boolean.
C32_OverridePrecedence ==
    fnResult.done =>
        /\ fnResult.value.consumer_group =
              Precedence(fnResult.set, fnArgs.consumer_group,
                         fnArgs.config.consumer_group, DefaultConsumerGroup)
        /\ fnResult.value.consumer_name =
              Precedence(fnResult.set, fnArgs.consumer_name,
                         fnArgs.config.consumer_name, DefaultConsumerName)
        /\ LET flag == Precedence(fnResult.set, fnArgs.debug_mode,
                                  fnArgs.config.debug_mode, PyBool(FALSE))
           IN /\ fnResult.value.debug_mode.type = "bool"
              /\ flag.type = "bool" => fnResult.value.debug_mode = flag
              /\ flag.type = "str" =>
                    (fnResult.value.debug_mode = PyBool(TRUE)
                        <=> Lower(flag.val) \in {"true", "1", "yes", "on"})

\* ---------------------------------------------------- build_event_envelope
MaxTopicLen == 4   \* longest topic name passed to publish

\* the text of the default event type, kept as one symbol
UnknownEventType == <<"UnknownEventType">>

\* an optional string argument: omitted (None), or given with its text
Omitted == [given |-> FALSE, text |-> <<>>]
Given(text) == [given |-> TRUE, text |-> text]

\* `not hint`: the argument is None or the empty string
Falsy(hint) == ~hint.given \/ hint.text = <<>>

RECURSIVE Split(_)
\* str.split(":")
Split(str) ==
    IF \A i \in 1..Len(str) : str[i] # ":" THEN <<str>>
    ELSE LET i == CHOOSE j \in 1..Len(str) :
                      str[j] = ":" /\ \A k \in 1..(j - 1) : str[k] # ":"
         IN <<SubSeq(str, 1, i - 1)>> \o Split(SubSeq(str, i + 1, Len(str)))

\* core.models.build_event_envelope: the event_type of the envelope
build_event_envelope(event_type_hint) ==
    IF Falsy(event_type_hint) THEN UnknownEventType ELSE event_type_hint.text

\* a bus that would pass the caller's hint on as it is
EbfEventTypeHint_AsGiven(topic, event_type_hint) == event_type_hint

\* RedisStreamsEventBus._build_event_envelope: the hint it passes on, taken
\* from the topic name when the caller gave none
EbfEventTypeHint(topic, event_type_hint) ==
    IF Falsy(event_type_hint) /\ (\E i \in 1..Len(topic) : topic[i] = ":")
          /\ Len(Split(topic)) >= 4
    THEN Given(Split(topic)[Len(Split(topic))])
    ELSE event_type_hint

\* RedisStreamsEventBus._build_event_envelope: the event_type of the envelope
EbfBuildEventEnvelope(topic, event_type_hint) ==
    build_event_envelope(EbfEventTypeHint(topic, event_type_hint))

\* a caller of build_event_envelope or of RedisStreamsEventBus.publish, with
\* a topic and with or without an event type
InitEnvelope ==
    /\ InitWorkers
    /\ busKind = "ebf"
    /\ InitKey
    /\ InitRegistry
    /\ InitService
    /\ subError = None
    /\ InitCalls
    /\ fnArgs \in [fn : {"build_event_envelope", "publish"},
                   topic : Strings(MaxTopicLen),
                   event_type_hint : {Omitted, Given(<<>>), Given(<<"a">>)}]
    /\ fnResult = NoCall

BuildEventEnvelope ==
    /\ ~fnResult.done
    /\ fnArgs.fn = "build_event_envelope"
    /\ fnResult' = [done |-> TRUE,
                    event_type |-> build_event_envelope(fnArgs.event_type_hint)]
    /\ UNCHANGED <<fnArgs, notFnVars>>

\* publish builds the envelope it sends with _build_event_envelope
PublishEnvelope ==
    /\ ~fnResult.done
    /\ fnArgs.fn = "publish"
    /\ fnResult' = [done |-> TRUE,
                    event_type |-> EbfBuildEventEnvelope(fnArgs.topic,
                                                         fnArgs.event_type_hint)]
    /\ UNCHANGED <<fnArgs, notFnVars>>

NextEnvelope ==
    \/ BuildEventEnvelope
    \/ PublishEnvelope

SpecEnvelope == InitEnvelope /\ [][NextEnvelope]_vars

\* C33 as stated: default event type.  When the caller of publish or
\* build_envelope omits the event type, the envelope's event_type is
\* "UnknownEventType", for every topic name (topic names with ':' separators
\* included).
C33_DefaultEventType ==
    (fnResult.done /\ ~fnArgs.event_type_hint.given) =>
        fnResult.event_type = UnknownEventType

\* the number of ':' in a string, and the text after its last ':'
Colons(str) == Cardinality({i \in 1..Len(str) : str[i] = ":"})
AfterLastColon(str) ==
    LET last == CHOOSE i \in 1..Len(str) :
                    str[i] = ":" /\ \A k \in (i + 1)..Len(str) : str[k] # ":"
    IN SubSeq(str, last + 1, Len(str))

\* C33, amended: when the caller omits the event type, build_event_envelope
\* gives "UnknownEventType"; RedisStreamsEventBus.publish gives the text
\* after the last ':' of the topic when the topic has at least three ':' and
\* that text is not empty, and "UnknownEventType" for every other topic.
C33_DefaultEventTypeAmended ==
    (fnResult.done /\ ~fnArgs.event_type_hint.given) =>
        fnResult.event_type =
            IF fnArgs.fn = "publish" /\ Colons(fnArgs.topic) >= 3
                  /\ AfterLastColon(fnArgs.topic) # <<>>
            THEN AfterLastColon(fnArgs.topic)
            ELSE UnknownEventType

\* C33 witness: publish without an event type on a topic of four parts took
\* the event type from the topic
C33_Witness ==
    /\ fnResult.done
    /\ fnArgs.fn = "publish"
    /\ ~fnArgs.event_type_hint.given
    /\ fnArgs.topic = <<":", ":", ":", "a">>
    /\ fnResult.event_type = <<"a">>

\* ------------------------------------- serialize_to_json / deserialize_from_json
MaxDepth == 2   \* deepest nesting of containers in an envelope's value

\* Python values json.dumps accepts: None, bool, int, float, str, list,
\* tuple, and dict (a set of <<key, value>> items) with scalar keys
PyFloat(x) == [type |-> "float", val |-> x]
PyList(items) == [type |-> "list", val |-> items]
PyTuple(items) == [type |-> "tuple", val |-> items]
PyDict(items) == [type |-> "dict", val |-> items]

PyScalars == {PyNone, PyBool(TRUE), PyInt(1), PyStr("s"), PyFloat("nan")}
PyKeys == {PyStr("a"), PyInt(1)}

RECURSIVE PyValues(_)
\* the values nested at most n containers deep; a container has at most one
\* element
PyValues(n) ==
    IF n = 0 THEN PyScalars
    ELSE LET inner == PyValues(n - 1)
         IN inner
            \cup {PyList(<<>>), PyTuple(<<>>), PyDict({})}
            \cup {PyList(<<v>>) : v \in inner}
            \cup {PyTuple(<<v>>) : v \in inner}
            \cup {PyDict({<<k, v>>}) : k \in PyKeys, v \in inner}

\* the JSON texts, by what they denote: null, true/false, a number, the
\* token NaN, a string, an array, an object (a set of <<name, text>> members)
Json(kind, val) == [j |-> kind, val |-> val]

\* json.dumps: the member name a dict key is written as
KeyText(key) ==
    CASE key.type = "str" -> key.val
      [] key.type = "int" -> IF key.val = 1 THEN "1" ELSE "0"
      [] key.type = "bool" -> IF key.val = 1 THEN "true" ELSE "false"
      [] OTHER -> "null"

RECURSIVE Dumps(_)
\* json.dumps(value): lists and tuples are both written as arrays, keys as
\* strings, nan as the token NaN
Dumps(value) ==
    CASE value.type = "none" -> Json("null", 0)
      [] value.type = "bool" -> Json("bool", value.val)
      [] value.type = "int" -> Json("number", value.val)
      [] value.type = "float" -> Json("NaN", 0)
      [] value.type = "str" -> Json("string", value.val)
      [] value.type \in {"list", "tuple"} ->
            Json("array", [i \in 1..Len(value.val) |-> Dumps(value.val[i])])
      [] OTHER ->
            Json("object", {<<KeyText(item[1]), Dumps(item[2])>> : item \in value.val})

\* a decoder that would read arrays as tuples
LoadsArray_AsTuple(items) == PyTuple(items)

\* json.loads: an array becomes a list
LoadsArray(items) == PyList(items)

RECURSIVE Loads(_)
\* json.loads(text): objects become dicts with str keys, NaN a new float
Loads(text) ==
    CASE text.j = "null" -> PyNone
      [] text.j = "bool" -> [type |-> "bool", val |-> text.val]
      [] text.j = "number" -> PyInt(text.val)
      [] text.j = "NaN" -> PyFloat("nan")
      [] text.j = "string" -> PyStr(text.val)
      [] text.j = "array" ->
            LoadsArray([i \in 1..Len(text.val) |-> Loads(text.val[i])])
      [] OTHER ->
            PyDict({<<PyStr(member[1]), Loads(member[2])>> : member \in text.val})

\* core.utils.serialize_to_json and deserialize_from_json
serialize_to_json(data) == Dumps(data)
deserialize_from_json(json_str) == Loads(json_str)

RECURSIVE PyEq(_, _)
\* a == b for two distinct objects: nan equals nothing, True == 1, a list is
\* never equal to a tuple, containers compare their elements
PyEq(a, b) ==
    CASE a.type \in {"bool", "int"} /\ b.type \in {"bool", "int"} -> a.val = b.val
      [] a.type # b.type -> FALSE
      [] a.type = "float" -> FALSE
      [] a.type \in {"none", "str"} -> a = b
      [] a.type \in {"list", "tuple"} ->
            /\ Len(a.val) = Len(b.val)
            /\ \A i \in 1..Len(a.val) : PyEq(a.val[i], b.val[i])
      [] OTHER ->
            /\ Cardinality(a.val) = Cardinality(b.val)
            /\ \A item \in a.val : \E other \in b.val :
                  PyEq(item[1], other[1]) /\ PyEq(item[2], other[2])

\* the envelopes: mappings with a string key and a serializable value
Envelopes == {PyDict({<<PyStr("actual_payload"), v>>}) : v \in PyValues(MaxDepth)}

InitJson ==
    /\ InitWorkers
    /\ busKind = "ebf"
    /\ InitKey
    /\ InitRegistry
    /\ InitService
    /\ subError = None
    /\ InitCalls
    /\ fnArgs \in Envelopes
    /\ fnResult = NoCall

\* deserialize_from_json(serialize_to_json(e))
RoundTrip ==
    /\ ~fnResult.done
    /\ fnResult' = [done |-> TRUE,
                    value |-> deserialize_from_json(serialize_to_json(fnArgs))]
    /\ UNCHANGED <<fnArgs, notFnVars>>

NextJson == RoundTrip

SpecJson == InitJson /\ [][NextJson]_vars

RECURSIVE JsonNative(_)
\* built only from None, bool, int, str, lists, and dicts with str keys
JsonNative(value) ==
    CASE value.type \in {"none", "bool", "int", "str"} -> TRUE
      [] value.type = "list" -> \A i \in 1..Len(value.val) : JsonNative(value.val[i])
      [] value.type = "dict" ->
            \A item \in value.val : item[1].type = "str" /\ JsonNative(item[2])
      [] OTHER -> FALSE

C35_ResetToleratesErrors ==
    (cfgDebug /\ \E i \in Destroys : ~busLog[i].ok) =>
        /\ {busLog[i].topic : i \in Destroys} = Elems(emTopics)
        /\ smPc = "subscribe" =>
              {busLog[j].topic : j \in Subscribes} \cup Elems(emTodo) = Elems(emTopics)
        /\ smPc = "finish" =>
              /\ {busLog[j].topic : j \in Subscribes} = Elems(emTopics)
              /\ \A j \in Subscribes : busLog[j].ok
        /\ smFailed = "subs" => \E j \in Subscribes : ~busLog[j].ok

\* C35 witness: the first destroy of a debug wiring of two topics failed, the
\* second was carried out, and both topics were subscribed
C35_Witness ==
    /\ cfgDebug
    /\ smPc = "finish"
    /\ Len(busLog) = 4
    /\ busLog[1].op = "destroy" /\ ~busLog[1].ok
    /\ busLog[2].op = "destroy" /\ busLog[2].ok
    /\ busLog[3].op = "subscribe" /\ busLog[3].ok
    /\ busLog[4].op = "subscribe" /\ busLog[4].ok

\* the workers in the registry of the bus
Registered == {th \in ThreadIds : \E t \in Topics : registry[t] = th}

\* C36: stop_all_subscriptions signals and forgets.
\* RedisStreamEventBus.stop_all_subscriptions sets the stop flag of every
\* worker present in the bus's registry, then empties the registry, and
\* returns without waiting for any worker to exit: every worker is where it
\* was, and the workers outside the registry are untouched.
C36_StopSignalsAndForgets ==
    [][(busKind = "libs" /\ registry' # registry
            /\ \A t \in Topics : registry'[t] = NoThread) =>
          /\ \A th \in Registered : ~thr'[th].running /\ thr'[th].stopCalled
          /\ \A th \in ThreadIds : thr'[th].pc = thr[th].pc
          /\ \A th \in ThreadIds \ Registered : thr'[th] = thr[th]]_vars

\* C36 witness: stop_all_subscriptions has returned while the worker it
\* signalled is still inside a handler call
C36_Witness ==
    /\ busKind = "libs"
    /\ \A t \in Topics : registry[t] = NoThread
    /\ \E th \in ThreadIds :
          thr[th].stopCalled /\ ~thr[th].stale /\ thr[th].pc = "handler"

\* C37: a failed start leaves no worker behind.  If setup_subscriptions
\* fails at the k-th registered topic (bus.subscribe raises), then after
\* start_async has raised no worker started for the earlier topics is still
\* running: running = false after a failed start implies that the service
\* consumes no message.
C37_FailedStartLeavesNoWorker ==
    (smPc = "idle" /\ smFailed = "subs" /\ ~smRunning) => svcWorkers = {}

\* ------------------------------------ the stream keys of a libs subscription
RECURSIVE Remove(_, _)
\* str.replace(old, ""), for a non-empty old
Remove(str, old) ==
    IF Len(str) < Len(old) THEN str
    ELSE IF SubSeq(str, 1, Len(old)) = old
         THEN Remove(SubSeq(str, Len(old) + 1, Len(str)), old)
         ELSE <<Head(str)>> \o Remove(Tail(str), old)

\* MessageProcessingThread.run: the topic it passes to event_bus.acknowledge
\* (self.topic is the topic subscribe was called with)
WorkerAckTopic(prefix, topic) == Remove(topic, prefix \o <<":">>)

\* no key used yet
NoKeysUsed == [done |-> FALSE, used |-> {}]

\* a bus built with a topic prefix, and a topic
InitStreamKeys ==
    /\ InitWorkers
    /\ busKind = "libs"
    /\ handlerOf = [t \in Topics |-> "raw"]
    /\ InitKey
    /\ InitRegistry
    /\ InitService
    /\ subError = None
    /\ InitCalls
    /\ fnArgs \in [topic_prefix : Strings(MaxLen), topic : Strings(MaxLen)]
    /\ fnResult = NoKeysUsed

\* a command sent on a key is recorded
UseKeys(ops, key) ==
    /\ fnResult' = [done |-> TRUE, used |-> fnResult.used \cup {<<op, key>> : op \in ops}]
    /\ UNCHANGED <<fnArgs, notFnVars>>

\* RedisStreamEventBus.publish: XADD on _build_topic_key(topic)
PublishKey ==
    /\ \A pair \in fnResult.used : pair[1] # "XADD"
    /\ UseKeys({"XADD"}, LibsBuildTopicKey(fnArgs.topic_prefix, fnArgs.topic))

\* RedisStreamEventBus.subscribe: the consumer group is built on
\* _build_topic_key(topic); create_group and read_messages use its topic
SubscribeKey ==
    /\ \A pair \in fnResult.used : pair[1] # "XGROUP CREATE"
    /\ UseKeys({"XGROUP CREATE", "XREADGROUP"},
               LibsBuildTopicKey(fnArgs.topic_prefix, fnArgs.topic))

\* the subscription's worker acknowledges a message: acknowledge sends XACK
\* on _build_topic_key of the topic the worker passes
WorkerAckKey ==
    /\ \E pair \in fnResult.used : pair[1] = "XREADGROUP"
    /\ \A pair \in fnResult.used : pair[1] # "XACK"
    /\ UseKeys({"XACK"},
               LibsBuildTopicKey(fnArgs.topic_prefix,
                                 WorkerAckTopic(fnArgs.topic_prefix, fnArgs.topic)))

NextStreamKeys ==
    \/ PublishKey
    \/ SubscribeKey
    \/ WorkerAckKey

SpecStreamKeys == InitStreamKeys /\ [][NextStreamKeys]_vars

\* C38: one stream key per subscription.  On RedisStreamEventBus, for every
\* prefix (the empty prefix included) and every topic (topics that contain
\* ':' or the text '<prefix>:' included), the stream key used by publish, the
\* key of the subscription's XGROUP CREATE and XREADGROUP, and the key of
\* every XACK issued by the subscription's worker are the same key.
C38_OneStreamKey ==
    \A p, q \in fnResult.used : p[2] = q[2]

\* C39: a failed subscribe changes nothing.  If subscribe fails while
\* creating the consumer group (any error other than BUSYGROUP), the bus's
\* subscription registry is unchanged, no new worker thread is started, and
\* a worker that already exists for the same (topic, group, consumer) is
\* neither stopped nor replaced.
C39_FailedSubscribeChangesNothing ==
    [][subError' # subError =>
          /\ registry' = registry
          /\ thr' = thr
          /\ mainPc' = mainPc
          /\ group' = group]_vars

\* C39 witness: a subscribe was rejected and the worker registered for the
\* topic is running, not told to stop and not replaced
C39_Witness ==
    /\ subError # None
    /\ \E t \in Topics :
          /\ registry[t] # NoThread
          /\ thr[registry[t]].running
          /\ ~thr[registry[t]].stopCalled
          /\ ~thr[registry[t]].stale
          /\ FreeThreads # {}

\* the handler invocations for an id of a topic that returned to the worker
\* without raising
ReturnedInvocations(t, id) ==
    {<<th, i>> \in ThreadIds \X (1..MaxMsgs) :
        /\ thr[th].topic = t
        /\ i \in CallsOf(th)
        /\ calls[th][i].id = id
        /\ calls[th][i].result # "pending"
        /\ ~calls[th][i].raised}

\* C40: no ack without a handled message.  A bus worker never issues an XACK
\* for a message id unless a handler invocation for that id has returned
\* without raising; in particular the entries of a batch that are skipped
\* because the stop flag was set in the middle of the batch are not
\* acknowledged and stay pending.
C40_NoAckWithoutHandledMessage ==
    /\ [](\A t \in Topics : \A id \in 1..MaxMsgs :
            /\ AcksBy("worker", t, id) <= Cardinality(ReturnedInvocations(t, id))
            /\ Invocations(t, id) = 0 => AcksFor(t, id) = 0)
    /\ [][\A t \in Topics : \A id \in 1..MaxMsgs :
            (id \in group[t].pel /\ Invocations(t, id)' = 0) =>
                id \in group'[t].pel]_vars

\* C40 witness: a libs worker was told to stop while it handled the first
\* message of a reply of two: it acknowledged the first and left the loop,
\* the second has no invocation, no XACK, and is pending
C40_Witness ==
    /\ busKind = "libs"
    /\ \E th \in ThreadIds :
          /\ thr[th].stopCalled
          /\ thr[th].pc = "stopped"
          /\ Len(calls[th]) = 1
          /\ calls[th][1].id = 1
          /\ AcksBy("worker", thr[th].topic, 1) = 1
          /\ group[thr[th].topic].last = 2
          /\ Invocations(thr[th].topic, 2) = 0
          /\ AcksFor(thr[th].topic, 2) = 0
          /\ 2 \in group[thr[th].topic].pel

====
